---- MODULE Spec2Model ----
(***************************************************************************)
(* The conversational agent of the storefront: the chat orchestrator       *)
(* (lib/chatbot.ts, processChat and its history window), the tool          *)
(* dispatcher (executeToolFunction and the SQL / command tools), the       *)
(* execute-sql endpoint of routes/chatbot.ts and the pattern guardrail     *)
(* (isQueryAllowed).                                                       *)
(*                                                                         *)
(* A turn is one call of processChat.  Every `await` of processChat is a   *)
(* suspension point, so a turn is a sequence of atomic steps, one per      *)
(* stretch of code between two awaits; steps of different turns            *)
(* interleave freely (Node's event loop runs one stretch at a time).       *)
(***************************************************************************)
EXTENDS Integers, Sequences, FiniteSets, TLC

VARIABLES
  conversationHistories,  \* userId -> sequence of messages; <<>> = no entry
  turns,                  \* turn id -> the locals of that processChat call
  sqlRequest,             \* the execute-sql request being served, if any
  query,                  \* the statement given to the guardrail (SpecGuard)
                          \* or to the SQL tool (SpecSqlTool)
  verdict,                \* the result of the guardrail:
                          \* "none" | "allowed" | "denied"
  session,                \* how the session of SpecHistory was created and
                          \* how many messages were appended to it
  client,                 \* the ChatbotService of the frontend (SpecClient)
  match,                  \* a name comparison and its score (SpecScore)
  api,                    \* the last request the chat routes answered and
                          \* the rows of the chat table (SpecRoutes)
  basket,                 \* a basket of the database and the last call
                          \* of a basket tool on it (SpecBasket)
  toolCall,               \* the last call of executeToolFunction: what it
                          \* was given and what came of it (SpecTools)
  LLM_API_KEY             \* whether the process was started with a key of
                          \* the model API (read once, when the module loads)

vars == <<conversationHistories, turns, sqlRequest, query, verdict, session,
          client, match, api, basket, toolCall,
         LLM_API_KEY>>

(***************************************************************************)
(* Bounds of the model                                                     *)
(***************************************************************************)
NumUsers == 2
MaxTurns == 3
MaxOverlap == 2
MaxStmtLen == 5
MaxAppends == 15
MaxMessages == 3
MaxNameLen == 3
MaxRows == 2
NumProducts == 2
MaxQuantity == 3
MaxRequestedDiscount == 22

(***************************************************************************)
(* Program constants                                                       *)
(***************************************************************************)
MAX_HISTORY_LENGTH == 10

Users == 1..NumUsers
TurnIds == 1..MaxTurns
NoUser == 0

(***************************************************************************)
(* Messages.  `turn` tags the processChat call that appended the message   *)
(* (0 for the entries a session is created with); `content` names what     *)
(* the text is.                                                            *)
(***************************************************************************)
Message(role, turn, content) == [role |-> role, turn |-> turn, content |-> content]

LLM_SYSTEM_PROMPT == Message("system", 0, "systemPrompt")

getGreeting == Message("assistant", 0, "greeting")

(***************************************************************************)
(* History window (lib/chatbot.ts)                                         *)
(***************************************************************************)

\* Array.prototype.slice(start) on a sequence: the elements from the
\* 0-based index `start` to the end.
slice(seq, start) == SubSeq(seq, start + 1, Len(seq))

\* A history store with one list for all users: the message is pushed onto
\* every existing entry.
addToConversationHistory_shared(hist, userId, message) ==
  [u \in Users |->
     IF u = userId \/ hist[u] # <<>>
     THEN LET created == IF hist[u] = <<>> THEN <<LLM_SYSTEM_PROMPT>> ELSE hist[u]
              pushed == Append(created, message)
          IN  IF Len(pushed) > MAX_HISTORY_LENGTH + 1
              THEN <<pushed[1]>> \o slice(pushed, Len(pushed) - MAX_HISTORY_LENGTH)
              ELSE pushed
     ELSE hist[u]]

\* An append that never cuts the history back.
addToConversationHistory_unbounded(hist, userId, message) ==
  LET created == IF hist[userId] = <<>> THEN <<LLM_SYSTEM_PROMPT>> ELSE hist[userId]
  IN  [hist EXCEPT ![userId] = Append(created, message)]

\* An append whose cut is off by one: it evicts one entry more than the
\* oldest ones beyond the bound.
addToConversationHistory_evictsTooMany(hist, userId, message) ==
  LET created == IF hist[userId] = <<>> THEN <<LLM_SYSTEM_PROMPT>> ELSE hist[userId]
      pushed == Append(created, message)
  IN  IF Len(pushed) > MAX_HISTORY_LENGTH + 1
      THEN [hist EXCEPT ![userId] =
              <<pushed[1]>> \o slice(pushed, Len(pushed) - MAX_HISTORY_LENGTH + 1)]
      ELSE [hist EXCEPT ![userId] = pushed]

\* An append whose cut keeps the last MAX_HISTORY_LENGTH + 1 entries and
\* does not put the system message back in front.
addToConversationHistory_dropsSystem(hist, userId, message) ==
  LET created == IF hist[userId] = <<>> THEN <<LLM_SYSTEM_PROMPT>> ELSE hist[userId]
      pushed == Append(created, message)
  IN  IF Len(pushed) > MAX_HISTORY_LENGTH + 1
      THEN [hist EXCEPT ![userId] =
              slice(pushed, Len(pushed) - MAX_HISTORY_LENGTH - 1)]
      ELSE [hist EXCEPT ![userId] = pushed]

\* addToConversationHistory: create the entry with the system prompt when
\* the user has none, push, then cut back to the system message plus the
\* last MAX_HISTORY_LENGTH entries.
addToConversationHistory(hist, userId, message) ==
  LET created == IF hist[userId] = <<>> THEN <<LLM_SYSTEM_PROMPT>> ELSE hist[userId]
      pushed == Append(created, message)
  IN  IF Len(pushed) > MAX_HISTORY_LENGTH + 1
      THEN [hist EXCEPT ![userId] =
              <<pushed[1]>> \o slice(pushed, Len(pushed) - MAX_HISTORY_LENGTH)]
      ELSE [hist EXCEPT ![userId] = pushed]

\* getConversationHistory: the read creates the entry (system prompt and
\* greeting) when the user has none.
getConversationHistory(hist, userId) ==
  IF hist[userId] = <<>>
  THEN [hist EXCEPT ![userId] = <<LLM_SYSTEM_PROMPT, getGreeting>>]
  ELSE hist

\* A clear that starts over from the greeting alone.
clearConversationHistory_greetingOnly(hist, userId) ==
  IF hist[userId] # <<>>
  THEN [hist EXCEPT ![userId] = <<getGreeting>>]
  ELSE hist

\* clearConversationHistory: keep element 0 and add a fresh greeting; a
\* user without an entry stays without one.
clearConversationHistory(hist, userId) ==
  IF hist[userId] # <<>>
  THEN [hist EXCEPT ![userId] = <<hist[userId][1], getGreeting>>]
  ELSE hist

(***************************************************************************)
(* Statements and commands are sequences of whitespace-separated tokens    *)
(* (the text is the tokens joined by single blanks, without leading or     *)
(* trailing blanks).                                                       *)
(***************************************************************************)

\* The effect of the regular expressions' `i` flag on the tokens used here.
toUpperCase(tok) ==
  CASE tok = "select" -> "SELECT"
    [] tok = "from" -> "FROM"
    [] tok = "update" -> "UPDATE"
    [] tok = "set" -> "SET"
    [] tok = "limit" -> "LIMIT"
    [] tok = "SecurityAnswers" -> "SECURITYANSWERS"
    [] tok = "SecurityAnswers," -> "SECURITYANSWERS,"
    [] tok = "Products," -> "PRODUCTS,"
    [] tok = "Products" -> "PRODUCTS"
    [] tok = "Users" -> "USERS"
    [] tok = "c" -> "C"
    [] OTHER -> tok

\* Some token at 1-based position lo..hi upper-cases to kw.
HasToken(stmt, kw, lo, hi) ==
  \E i \in lo..hi : i \in 1..Len(stmt) /\ toUpperCase(stmt[i]) = kw

\* /^SELECT\s+.*\s+FROM\s+.*$/i : SELECT is the first token; a token FROM
\* follows with blanks on both sides, the one before it not being the
\* blank that ends `SELECT\s+` (so FROM is the third token or later), and
\* FROM is not the last token.
MatchesSelectFrom(stmt) ==
  /\ Len(stmt) >= 1
  /\ toUpperCase(stmt[1]) = "SELECT"
  /\ HasToken(stmt, "FROM", 3, Len(stmt) - 1)

\* /^WITH\s+.*\s+SELECT\s+.*\s+FROM\s+.*$/i
MatchesWithSelectFrom(stmt) ==
  /\ Len(stmt) >= 1
  /\ toUpperCase(stmt[1]) = "WITH"
  /\ \E i \in 3..Len(stmt) :
       /\ toUpperCase(stmt[i]) = "SELECT"
       /\ HasToken(stmt, "FROM", i + 2, Len(stmt) - 1)

\* ALLOWED_SQL_PATTERNS.some(pattern => pattern.test(query))
ALLOWED_SQL_PATTERNS(stmt) ==
  MatchesSelectFrom(stmt) \/ MatchesWithSelectFrom(stmt)

\* /KW\s+/i, unanchored: the keyword followed by a blank, so a token KW
\* that is not the last one.
MatchesKeywordBlank(stmt, kw) == HasToken(stmt, kw, 1, Len(stmt) - 1)

\* DISALLOWED_SQL_PATTERNS.some(pattern => pattern.test(query))
DISALLOWED_SQL_PATTERNS(stmt) ==
  \/ MatchesKeywordBlank(stmt, "DROP")
  \/ MatchesKeywordBlank(stmt, "ALTER")
  \/ MatchesKeywordBlank(stmt, "CREATE")
  \/ MatchesKeywordBlank(stmt, "TRUNCATE")
  \/ MatchesKeywordBlank(stmt, "EXEC")
  \/ MatchesKeywordBlank(stmt, "UNION")
  \/ HasToken(stmt, "BENCHMARK(", 1, Len(stmt))

RESTRICTED_TABLES == {"SECURITYANSWERS"}

\* The token starts with the table name followed by a word boundary (\b):
\* the bare name, or the name followed by a comma.
NamesTable(tok, table) ==
  toUpperCase(tok) = table \/ toUpperCase(tok) = table \o ","

\* new RegExp(`\\bFROM\\s+${table}\\b`, 'i').test(query) ||
\* new RegExp(`\\bJOIN\\s+${table}\\b`, 'i').test(query)
hasRestrictedTable(stmt) ==
  \E table \in RESTRICTED_TABLES : \E i \in 1..(Len(stmt) - 1) :
    /\ toUpperCase(stmt[i]) \in {"FROM", "JOIN"}
    /\ NamesTable(stmt[i + 1], table)

\* isQueryAllowed of the pattern guardrail: three early returns, then true.
isQueryAllowed(stmt) ==
  IF ~ALLOWED_SQL_PATTERNS(stmt) THEN FALSE
  ELSE IF DISALLOWED_SQL_PATTERNS(stmt) THEN FALSE
  ELSE IF hasRestrictedTable(stmt) THEN FALSE
  ELSE TRUE

(***************************************************************************)
(* The guardrail of lib/insecurity (isDatabaseOperationAllowed,            *)
(* isSystemCommandAllowed), which lib/chatbot.ts delegates to.             *)
(***************************************************************************)

\* Denied: dropping a database or table, truncating, and deleting from the
\* identity tables; everything else passes.
isDatabaseOperationAllowed(stmt) ==
  ~ \/ MatchesKeywordBlank(stmt, "DROP")
    \/ MatchesKeywordBlank(stmt, "TRUNCATE")
    \/ \E i \in 1..(Len(stmt) - 2) :
         /\ toUpperCase(stmt[i]) = "DELETE"
         /\ toUpperCase(stmt[i + 1]) = "FROM"
         /\ toUpperCase(stmt[i + 2]) \in {"USERS", "SECURITYANSWERS"}

\* Denied: stopping a service or container, shutdown, recursive deletion
\* of the root directory; everything else passes.
isSystemCommandAllowed(cmd) ==
  ~ \/ \E i \in 1..(Len(cmd) - 1) :
         cmd[i] \in {"docker", "systemctl"} /\ cmd[i + 1] = "stop"
    \/ \E i \in 1..(Len(cmd) - 1) :
         cmd[i] = "docker-compose" /\ cmd[i + 1] = "down"
    \/ HasToken(cmd, "shutdown", 1, Len(cmd))
    \/ \E i \in 1..(Len(cmd) - 2) :
         cmd[i] = "rm" /\ cmd[i + 1] = "-rf" /\ cmd[i + 2] = "/"

(***************************************************************************)
(* Inputs                                                                  *)
(***************************************************************************)

\* The names declared in botTools.
botTools ==
  {"get_product_information", "get_user_information", "add_to_basket",
   "get_basket", "remove_from_basket", "generate_coupon",
   "execute_sql_query", "execute_linux_command"}

\* A name the model may request that botTools does not declare.
UnknownTool == "delete_user"

\* Statements a model or a request may propose.
SqlSamples ==
  {<<"SELECT", "c", "FROM", "Products">>,
   <<"UPDATE", "Users", "SET", "c">>,
   <<"DROP", "TABLE", "Users">>}

\* Commands a model may propose.
CmdSamples ==
  {<<"ls">>, <<"shutdown", "-h", "now">>}

\* Tools that read their userId argument (execute_linux_command declares
\* one and executeLinuxCommand never reads it).
TakesUserId(functionName) ==
  functionName \in {"get_user_information", "add_to_basket", "get_basket",
                    "remove_from_basket"}

\* The texts a tool call can carry, by tool.
TextsOf(functionName) ==
  CASE functionName = "execute_sql_query" -> SqlSamples
    [] functionName = "execute_linux_command" -> CmdSamples
    [] OTHER -> {<<>>}

(***************************************************************************)
(* Tool results: `error` is "none" when the result has no error field,     *)
(* `data` names what else the result carries.                              *)
(***************************************************************************)
ToolResult(error, data) == [error |-> error, data |-> data]

NoResult == ToolResult("none", "none")

\* What a tool call sent out: a statement to the database or a command to
\* the host.  `proposed` is the text the caller asked for, `text` the text
\* sent, `guard` is "allowed" when the guardrail was evaluated on the
\* proposed text and allowed it, "none" when it was not evaluated.
Sent(kind, text, proposed, guard) ==
  [kind |-> kind, text |-> text, proposed |-> proposed, guard |-> guard]

NothingSent == Sent("none", <<>>, <<>>, "none")

\* The locals of a processChat call and of the route that awaits it.
\*   pc           where the call is suspended
\*   userId       the authenticated userId processChat was given
\*   functionName the tool the model asked for
\*   parameters   "parsed" once JSON.parse of the arguments has returned
\*   argUserId    parameters.userId as passed to executeToolFunction
\*   text         parameters.query / parameters.command
\*   execUserId   the userId the tool ran with
\*   functionResult
\*   sent         what the tool sent to the database or the host
\*   body         the body of the returned response
\*   modelRequests the requests this call has sent to the model
\*   toolCalls    the calls of executeToolFunction this call has made
IdleTurn ==
  [pc |-> "idle", userId |-> NoUser, functionName |-> "none",
   parameters |-> "undefined", argUserId |-> NoUser, text |-> <<>>, execUserId |-> NoUser,
   functionResult |-> NoResult, sent |-> NothingSent, body |-> "none",
   modelRequests |-> 0, toolCalls |-> 0]

\* The turn with its locals gone: what stays is what the call has done.
Forget(t) ==
  [IdleTurn EXCEPT !.userId = turns[t].userId,
                   !.modelRequests = turns[t].modelRequests,
                   !.toolCalls = turns[t].toolCalls]

\* A processChat call ends: the response goes back to the route, the
\* locals are gone.
Return(t, body) ==
  [turns EXCEPT ![t] = [Forget(t) EXCEPT !.pc = "done", !.userId = NoUser,
                                         !.body = body]]

\* No session yet, nothing appended.
NoSession == [created |-> "none", appended |-> 0]

(***************************************************************************)
(* Names are strings: sequences of characters.  Scores are fractions, so   *)
(* that 0.9, 0.8 and a ratio of word counts compare exactly.               *)
(***************************************************************************)
Fraction(num, den) == [num |-> num, den |-> den]

\* a < b for fractions with positive denominators
LessThan(a, b) == a.num * b.den < b.num * a.den

\* No score computed.
NoScore == Fraction(0, 0)

\* A threshold every score reaches.
MATCH_THRESHOLD_none == Fraction(0, 10)

\* const MATCH_THRESHOLD = 0.8
MATCH_THRESHOLD == Fraction(8, 10)

\* product = null
NoProduct == [id |-> 0, matches |-> NoScore]

\* A ChatResponse of the frontend: what its text says, requiresConfirmation,
\* action.productId (0 without an action) and error.
ChatResponse(text, requiresConfirmation, productId, error) ==
  [text |-> text, requiresConfirmation |-> requiresConfirmation,
   productId |-> productId, error |-> error]

NoResponse == ChatResponse("none", FALSE, 0, FALSE)

\* The ChatbotService after construction (context = {}) with no call of
\* sendMessage under way.
\*   pc           where sendMessage is suspended ("idle": not running)
\*   sent         the calls of sendMessage so far
\*   message      the message of the call
\*   productName  params.productName
\*   products     the result of productService.search
\*   product      the product resolveProductFromName returned
\*   response     the response of the handler; once idle, the one returned
\*   lastResponse context.lastResponse
\*   saved        the products basketService.save has put into the basket
\*   stored       the messages the messages endpoint has accepted
\*   logged       the save failures written to the console
NoClient ==
  [pc |-> "idle", sent |-> 0, message |-> "none", productName |-> <<>>,
   products |-> {}, product |-> NoProduct, response |-> NoResponse,
   lastResponse |-> NoResponse, saved |-> {}, stored |-> 0, logged |-> 0]

\* The token of a request: none, one that fails verification, one that
\* verifies but whose user is gone, or the token of a user.  `user` is the
\* user id of the payload.
Token(kind, user) == [kind |-> kind, user |-> user]

\* The last request the chat routes have answered (route, token, query of
\* the body, status of the response, the rows a getMessages returned) and
\* the rows of the chat table in the order of their creation.  Before the
\* first request: none.
NoApi ==
  [route |-> "none", token |-> Token("none", NoUser), query |-> "none",
   status |-> "none", returned |-> <<>>, rows |-> <<>>]

\* A call of a basket tool: the tool, parameters.productId,
\* parameters.quantity (<<>> when the model gave none, else <<n>>) and the
\* error of the result ("none" without one).
BasketCall(tool, productId, quantity, error) ==
  [tool |-> tool, productId |-> productId, quantity |-> quantity, error |-> error]

\* The basket of a user: product id -> quantity of its basket item (0: no
\* item), and the last call of a basket tool.  At first: empty, no call.
NoBasket ==
  [items |-> [p \in 1..NumProducts |-> 0],
   call |-> BasketCall("none", 0, <<>>, "none")]

\* No comparison yet.
NoMatch == [search |-> <<>>, actual |-> <<>>, score |-> NoScore]

\* A call of executeToolFunction and what came of it.
\*   functionName the tool
\*   missing      the required argument the call lacks ("none": complete)
\*   discount     parameters.discount of generate_coupon
\*   hasBasket    the user has a basket row
\*   writes       the statement or command of the call is one that writes
\*   error        the error of the result ("none" without one)
\*   mutated      the call has written to the database or the host
\*   coupon       <<d>> when the result is a coupon of discount d
ToolCall(functionName, missing, discount, hasBasket, writes, outcome) ==
  [functionName |-> functionName, missing |-> missing, discount |-> discount,
   hasBasket |-> hasBasket, writes |-> writes, error |-> outcome.error,
   mutated |-> outcome.mutated, coupon |-> outcome.coupon]

\* What a call comes to: the error of its result, whether it wrote, and
\* the discount of the coupon it issued.
Outcome(error, mutated, coupon) ==
  [error |-> error, mutated |-> mutated, coupon |-> coupon]

\* No call yet.
NoToolCall ==
  ToolCall("none", "none", 0, FALSE, FALSE, Outcome("none", FALSE, <<>>))

\* The requests that have arrived and are not answered yet.
InFlight == {t \in TurnIds : turns[t].pc \notin {"idle", "closed"}}

\* The user has sent a request before.
Seen(userId) ==
  \/ conversationHistories[userId] # <<>>
  \/ \E t \in InFlight : turns[t].userId = userId

Init ==
  /\ conversationHistories = [u \in Users |-> <<>>]
  /\ turns = [t \in TurnIds |-> IdleTurn]
  /\ sqlRequest = NothingSent
  /\ query = <<>>
  /\ verdict = "none"
  /\ session = NoSession
  /\ client = NoClient
  /\ match = NoMatch
  /\ api = NoApi
  /\ basket = NoBasket
  /\ toolCall = NoToolCall
  /\ LLM_API_KEY = TRUE

(***************************************************************************)
(* Tool dispatcher (lib/chatbot.ts)                                        *)
(***************************************************************************)

\* A check that looks for the basket tools' texts only.
UserNotFoundErrors_basketOnly ==
  {"User not found - could not add item to basket",
   "User not found - could not remove item from basket",
   "User not found - could not retrieve basket"}

\* The error texts that contain 'User not found'.
UserNotFoundErrors ==
  {"User not found",
   "User not found - could not add item to basket",
   "User not found - could not remove item from basket",
   "User not found - could not retrieve basket"}

\* query.includes('LIMIT'): case-sensitive, and true for any token that
\* has LIMIT in it (LIMITS is one).
includesLIMIT(stmt) == \E i \in 1..Len(stmt) : stmt[i] \in {"LIMIT", "LIMITS"}

\* /^UPDATE\s+/i.test(query)
isUpdateQuery(stmt) ==
  Len(stmt) >= 2 /\ toUpperCase(stmt[1]) = "UPDATE"

\* The text executeSqlQuery hands to sequelize.query.
SentSql(stmt) ==
  IF isUpdateQuery(stmt) \/ includesLIMIT(stmt) THEN stmt
  ELSE stmt \o <<"LIMIT", "100">>

\* An executeSqlQuery without the isQueryAllowed check.
executeSqlQuery_unguarded(stmt) ==
  [sent |-> Sent("db", SentSql(stmt), stmt, "allowed"),
   results |-> {ToolResult("none", "results"),
                ToolResult("Failed to execute SQL query", "none")}]

\* executeSqlQuery: the guardrail first; a denied statement returns the
\* security error and nothing is sent.  `sent` is what goes to the
\* database, `results` the results the call can return.
executeSqlQuery(stmt) ==
  IF ~isDatabaseOperationAllowed(stmt)
  THEN [sent |-> NothingSent,
        results |-> {ToolResult("This query cannot be executed for security reasons", "none")}]
  ELSE [sent |-> Sent("db", SentSql(stmt), stmt, "allowed"),
        results |-> {ToolResult("none", "results"),
                     ToolResult("Failed to execute SQL query", "none")}]

\* executeLinuxCommand: the command goes to exec as it is.
executeLinuxCommand(command) ==
  [sent |-> Sent("host", command, command, "none"),
   results |-> {ToolResult("none", "stdout"),
                ToolResult("Failed to execute Linux command", "none")}]

\* The results the basket and profile tools can return for a userId; the
\* database decides which.
getUserInformation(userId) ==
  {ToolResult("none", "user"), ToolResult("User not found", "none"),
   ToolResult("Failed to get user information", "none")}

addToBasket(userId) ==
  IF userId = NoUser THEN {ToolResult("User ID is required", "none")}
  ELSE {ToolResult("none", "success"),
        ToolResult("User not found - could not add item to basket", "none"),
        ToolResult("Product not found", "none")}

removeFromBasket(userId) ==
  IF userId = NoUser THEN {ToolResult("User ID is required", "none")}
  ELSE {ToolResult("none", "success"),
        ToolResult("User not found - could not remove item from basket", "none"),
        ToolResult("Item not found in basket", "none")}

getBasket(userId) ==
  IF userId = NoUser THEN {ToolResult("User ID is required", "none")}
  ELSE {ToolResult("none", "products"), ToolResult("none", "empty"),
        ToolResult("User not found - could not retrieve basket", "none")}

\* A switch whose default falls through to the command tool.
executeToolFunction_fallsThrough(functionName, parameters) ==
  CASE functionName = "get_product_information" ->
         [userId |-> NoUser, sent |-> NothingSent,
          results |-> {ToolResult("none", "products"),
                       ToolResult("Failed to get product information", "none")}]
    [] functionName = "get_user_information" ->
         [userId |-> parameters.userId, sent |-> NothingSent,
          results |-> getUserInformation(parameters.userId)]
    [] functionName = "add_to_basket" ->
         [userId |-> parameters.userId, sent |-> NothingSent,
          results |-> addToBasket(parameters.userId)]
    [] functionName = "get_basket" ->
         [userId |-> parameters.userId, sent |-> NothingSent,
          results |-> getBasket(parameters.userId)]
    [] functionName = "remove_from_basket" ->
         [userId |-> parameters.userId, sent |-> NothingSent,
          results |-> removeFromBasket(parameters.userId)]
    [] functionName = "generate_coupon" ->
         [userId |-> NoUser, sent |-> NothingSent,
          results |-> {ToolResult("none", "couponCode")}]
    [] functionName = "execute_sql_query" ->
         [userId |-> NoUser, sent |-> executeSqlQuery(parameters.text).sent,
          results |-> executeSqlQuery(parameters.text).results]
    [] functionName = "execute_linux_command" ->
         [userId |-> NoUser, sent |-> executeLinuxCommand(parameters.text).sent,
          results |-> executeLinuxCommand(parameters.text).results]
    [] OTHER ->
         [userId |-> NoUser, sent |-> executeLinuxCommand(parameters.text).sent,
          results |-> executeLinuxCommand(parameters.text).results]

\* executeToolFunction: the switch on the tool name.  The record gives the
\* userId the tool runs with, what it sends out and the possible results;
\* a name outside the switch throws, and the catch returns the error.
executeToolFunction(functionName, parameters) ==
  CASE functionName = "get_product_information" ->
         [userId |-> NoUser, sent |-> NothingSent,
          results |-> {ToolResult("none", "products"),
                       ToolResult("Failed to get product information", "none")}]
    [] functionName = "get_user_information" ->
         [userId |-> parameters.userId, sent |-> NothingSent,
          results |-> getUserInformation(parameters.userId)]
    [] functionName = "add_to_basket" ->
         [userId |-> parameters.userId, sent |-> NothingSent,
          results |-> addToBasket(parameters.userId)]
    [] functionName = "get_basket" ->
         [userId |-> parameters.userId, sent |-> NothingSent,
          results |-> getBasket(parameters.userId)]
    [] functionName = "remove_from_basket" ->
         [userId |-> parameters.userId, sent |-> NothingSent,
          results |-> removeFromBasket(parameters.userId)]
    [] functionName = "generate_coupon" ->
         [userId |-> NoUser, sent |-> NothingSent,
          results |-> {ToolResult("none", "couponCode")}]
    [] functionName = "execute_sql_query" ->
         [userId |-> NoUser, sent |-> executeSqlQuery(parameters.text).sent,
          results |-> executeSqlQuery(parameters.text).results]
    [] functionName = "execute_linux_command" ->
         [userId |-> NoUser, sent |-> executeLinuxCommand(parameters.text).sent,
          results |-> executeLinuxCommand(parameters.text).results]
    [] OTHER ->
         [userId |-> NoUser, sent |-> NothingSent,
          results |-> {ToolResult("Error executing function: Unknown function", "none")}]

(***************************************************************************)
(* processChat (lib/chatbot.ts), one action per stretch between awaits     *)
(***************************************************************************)

\* The tools for which processChat replaces parameters.userId by the
\* authenticated userId.
OverridesUserId(functionName) ==
  functionName \in {"get_user_information", "add_to_basket", "get_basket"}

\* The system prompt with '<customer-name>' replaced by the username.
NamedSystemPrompt == Message("system", 0, "systemPrompt for username")

\* if (username && history.length === 1): the content of history[0] is
\* customized (respond passes the username of the authenticated user).
customizeSystemPrompt(hist, userId) ==
  IF Len(hist[userId]) = 1
  THEN [hist EXCEPT ![userId][1] = NamedSystemPrompt]
  ELSE hist

\* A processChat that appends the user message on both of its paths.
AppendUserMessage_twice(hist, t, userId) ==
  addToConversationHistory(
    addToConversationHistory(getConversationHistory(hist, userId), userId,
                             Message("user", t, "query")),
    userId, Message("user", t, "query"))

\* The user message is appended (the read before it creates the entry),
\* then the history goes to the model.
AppendUserMessage(hist, t, userId) ==
  addToConversationHistory(
    customizeSystemPrompt(getConversationHistory(hist, userId), userId),
    userId, Message("user", t, "query"))

\* The body of the response of a process without a key.
NotConfigured == "Sorry, I'm not properly configured at the moment"

\* A processChat that records the message before it looks at the key.
processChat_recordsFirst(t, userId, isProductQuery) ==
  /\ turns[t].pc = "idle"
  /\ turns' = Return(t, NotConfigured)
  /\ conversationHistories' =
       addToConversationHistory(getConversationHistory(conversationHistories, userId),
                                userId, Message("user", t, "query"))

\* A request arrives and processChat runs up to its first await: without
\* a key it returns at once; else it goes to the product lookup when the
\* query matches a product term, else to the model.
\* Requests are numbered in the order of their arrival; the first
\* MaxOverlap of them may arrive while earlier ones are being served.
\* Users are numbered in the order of their first request.
processChat(t, userId, isProductQuery) ==
  /\ turns[t].pc = "idle"
  /\ t > 1 => turns[t - 1].pc # "idle"
  /\ InFlight = {} \/ t <= MaxOverlap
  /\ \A v \in Users : v < userId => Seen(v)
  /\ IF ~LLM_API_KEY
     THEN /\ turns' = Return(t, NotConfigured)
          /\ UNCHANGED conversationHistories
     ELSE IF isProductQuery
     THEN /\ turns' = [turns EXCEPT ![t].pc = "product", ![t].userId = userId]
          /\ UNCHANGED conversationHistories
     ELSE /\ turns' = [turns EXCEPT ![t].pc = "llm1", ![t].userId = userId,
                                   ![t].modelRequests = 1]
          /\ conversationHistories' =
               AppendUserMessage(conversationHistories, t, userId)

\* respond with the token of userId and a query: processChat is called.
Respond(t, userId, isProductQuery) ==
  /\ processChat(t, userId, isProductQuery)
  /\ UNCHANGED <<sqlRequest, query, verdict, session, client, match, api, basket, toolCall, LLM_API_KEY>>

\* A product lookup that answers by itself also when it found nothing.
ProductLookup_givesUp(t, found) ==
  /\ turns[t].pc = "product"
  /\ conversationHistories' =
       addToConversationHistory(
         addToConversationHistory(conversationHistories, turns[t].userId,
                                  Message("user", t, "query")),
         turns[t].userId, Message("assistant", t, "products"))
  /\ turns' = Return(t, IF found THEN "Here are our products" ELSE "No products found")
  /\ UNCHANGED <<sqlRequest, query, verdict, session, client, match, api, basket, toolCall, LLM_API_KEY>>

\* getProductInformation returns: with products the turn is answered at
\* once (user message and answer appended), else the model is asked.
ProductLookup(t, found) ==
  /\ turns[t].pc = "product"
  /\ IF found
     THEN /\ conversationHistories' =
               addToConversationHistory(
                 addToConversationHistory(conversationHistories, turns[t].userId,
                                          Message("user", t, "query")),
                 turns[t].userId, Message("assistant", t, "products"))
          /\ turns' = Return(t, "Here are our products")
     ELSE /\ conversationHistories' =
               AppendUserMessage(conversationHistories, t, turns[t].userId)
          /\ turns' = [turns EXCEPT ![t].pc = "llm1", ![t].modelRequests = 1]
  /\ UNCHANGED <<sqlRequest, query, verdict, session, client, match, api, basket, toolCall, LLM_API_KEY>>

\* A first model call that is sent again when it fails.
ModelFails_retries(t) ==
  /\ turns[t].pc = "llm1"
  /\ turns' = [turns EXCEPT ![t].modelRequests = turns[t].modelRequests + 1]
  /\ UNCHANGED <<conversationHistories, sqlRequest, query, verdict, session, client, match, api, basket, toolCall, LLM_API_KEY>>

\* A failure that takes the message of the turn out of the history again.
ModelFails_rollsBack(t) ==
  /\ turns[t].pc = "llm1"
  /\ turns' = Return(t, "error communicating with the AI service")
  /\ conversationHistories' =
       [conversationHistories EXCEPT ![turns[t].userId] =
          SelectSeq(@, LAMBDA m : m # Message("user", t, "query"))]
  /\ UNCHANGED <<sqlRequest, query, verdict, session, client, match, api, basket, toolCall, LLM_API_KEY>>

\* The first model call fails: the apology is returned.
ModelFails(t) ==
  /\ turns[t].pc = "llm1"
  /\ turns' = Return(t, "error communicating with the AI service")
  /\ UNCHANGED <<conversationHistories, sqlRequest, query, verdict, session, client, match, api, basket, toolCall, LLM_API_KEY>>

\* message.content of a model response: a text, or null.
NullContent == "null"

\* The model answers without a tool call: `assistantMessage.content || ''`
\* goes to the history, assistantMessage.content is the body.
ModelReplies(t, content) ==
  /\ turns[t].pc = "llm1"
  /\ conversationHistories' =
       addToConversationHistory(conversationHistories, turns[t].userId,
                                Message("assistant", t, "reply"))
  /\ turns' = Return(t, content)
  /\ UNCHANGED <<sqlRequest, query, verdict, session, client, match, api, basket, toolCall, LLM_API_KEY>>

\* A tool request whose parse error is swallowed: the tool is called with
\* the parameters left undefined.
ModelRequestsTool_ignoresParseError(t, functionName, argsValid, modelUserId, text) ==
  /\ turns[t].pc = "llm1"
  /\ conversationHistories' =
       addToConversationHistory(conversationHistories, turns[t].userId,
                                Message("assistant", t, "reply"))
  /\ turns' = [turns EXCEPT
                ![t].pc = "tool",
                ![t].functionName = functionName,
                ![t].parameters = IF argsValid THEN "parsed" ELSE "undefined",
                ![t].argUserId = IF OverridesUserId(functionName)
                                 THEN turns[t].userId ELSE modelUserId,
                ![t].text = text]
  /\ UNCHANGED <<sqlRequest, query, verdict, session, client, match, api, basket, toolCall, LLM_API_KEY>>

\* The model asks for a tool: the reply is appended, the arguments are
\* parsed, the userId is overridden for the listed tools and the tool is
\* called.
ModelRequestsTool(t, functionName, argsValid, modelUserId, text) ==
  /\ turns[t].pc = "llm1"
  /\ conversationHistories' =
       addToConversationHistory(conversationHistories, turns[t].userId,
                                Message("assistant", t, "reply"))
  /\ IF ~argsValid
     THEN turns' = Return(t, "Please try a different query")
     ELSE turns' = [turns EXCEPT
                ![t].pc = "tool",
                ![t].functionName = functionName,
                ![t].parameters = "parsed",
                ![t].argUserId = IF OverridesUserId(functionName)
                                 THEN turns[t].userId ELSE modelUserId,
                ![t].text = text]
  /\ UNCHANGED <<sqlRequest, query, verdict, session, client, match, api, basket, toolCall, LLM_API_KEY>>

\* A dispatch that calls the tool a second time when the first call
\* returned an error.
ToolExec_retriesOnError(t) ==
  /\ turns[t].pc = "tool"
  /\ LET call == executeToolFunction(turns[t].functionName,
                   [userId |-> turns[t].argUserId, text |-> turns[t].text])
     IN  \E result \in call.results :
           turns' = [turns EXCEPT ![t].pc = "toolDone",
                                  ![t].toolCalls = turns[t].toolCalls +
                                     (IF result.error # "none" THEN 2 ELSE 1),
                                  ![t].execUserId = call.userId,
                                  ![t].sent = call.sent,
                                  ![t].functionResult = result]
  /\ UNCHANGED <<conversationHistories, sqlRequest, query, verdict, session, client, match, api, basket, toolCall, LLM_API_KEY>>

\* executeToolFunction runs and returns its result.
ToolExec(t) ==
  /\ turns[t].pc = "tool"
  /\ LET call == executeToolFunction(turns[t].functionName,
                   [userId |-> turns[t].argUserId, text |-> turns[t].text])
     IN  \E result \in call.results :
           turns' = [turns EXCEPT ![t].pc = "toolDone",
                                  ![t].toolCalls = turns[t].toolCalls + 1,
                                  ![t].execUserId = call.userId,
                                  ![t].sent = call.sent,
                                  ![t].functionResult = result]
  /\ UNCHANGED <<conversationHistories, sqlRequest, query, verdict, session, client, match, api, basket, toolCall, LLM_API_KEY>>

\* processChat resumes with the tool result: the immediate answers of the
\* basket tools and of a missing user, else the result is appended and the
\* follow-up request is sent.
AfterTool(t) ==
  /\ turns[t].pc = "toolDone"
  /\ LET fn == turns[t].functionName
         res == turns[t].functionResult
     IN  IF fn \in {"add_to_basket", "remove_from_basket"} /\ res.error # "none"
         THEN /\ turns' = Return(t, "basket action failed")
              /\ UNCHANGED conversationHistories
         ELSE IF fn \in {"add_to_basket", "remove_from_basket"} /\ res.data = "success"
         THEN /\ turns' = [turns EXCEPT ![t] = [Forget(t) EXCEPT !.pc = "verify"]]
              /\ UNCHANGED conversationHistories
         ELSE IF fn = "get_basket" /\ res.error # "none"
         THEN /\ turns' = Return(t, "trouble retrieving your basket")
              /\ UNCHANGED conversationHistories
         ELSE IF fn = "get_basket" /\ res.data = "empty"
         THEN /\ turns' = Return(t, "Your basket is currently empty")
              /\ UNCHANGED conversationHistories
         ELSE IF res.error \in UserNotFoundErrors
         THEN /\ turns' = Return(t, "couldn't access your user information")
              /\ UNCHANGED conversationHistories
         ELSE /\ conversationHistories' =
                   addToConversationHistory(conversationHistories, turns[t].userId,
                                            Message("function", t, "functionResult"))
              /\ turns' = [turns EXCEPT ![t] =
                             [Forget(t) EXCEPT !.pc = "llm2",
                                               !.modelRequests = turns[t].modelRequests + 1]]
  /\ UNCHANGED <<sqlRequest, query, verdict, session, client, match, api, basket, toolCall, LLM_API_KEY>>

\* The basket read after a successful add or remove returns.
BasketCheck(t, basketCheck) ==
  /\ turns[t].pc = "verify"
  /\ turns' = Return(t, IF basketCheck.error # "none" THEN "trouble verifying your basket"
               ELSE IF basketCheck.data = "products" THEN "basket contents"
               ELSE "trouble displaying your basket")
  /\ UNCHANGED <<conversationHistories, sqlRequest, query, verdict, session, client, match, api, basket, toolCall, LLM_API_KEY>>

\* The follow-up model call fails.
FollowUpFails(t) ==
  /\ turns[t].pc = "llm2"
  /\ turns' = Return(t, "error while processing your request results")
  /\ UNCHANGED <<conversationHistories, sqlRequest, query, verdict, session, client, match, api, basket, toolCall, LLM_API_KEY>>

\* A follow-up reply that is returned and not appended.
FollowUpReplies_skipsAppend(t, content) ==
  /\ turns[t].pc = "llm2"
  /\ turns' = Return(t, content)
  /\ UNCHANGED <<conversationHistories, sqlRequest, query, verdict, session, client, match, api, basket, toolCall, LLM_API_KEY>>

\* The follow-up model call returns the final message: its content goes
\* to the history and is the body.
FollowUpReplies(t, content) ==
  /\ turns[t].pc = "llm2"
  /\ conversationHistories' =
       addToConversationHistory(conversationHistories, turns[t].userId,
                                Message("assistant", t, "final"))
  /\ turns' = Return(t, content)
  /\ UNCHANGED <<sqlRequest, query, verdict, session, client, match, api, basket, toolCall, LLM_API_KEY>>

\* A model response without choices[0].message: reading it throws, and the
\* catch around the body of processChat returns the generic error.
UnexpectedError(t) ==
  /\ turns[t].pc \in {"llm1", "llm2"}
  /\ turns' = Return(t, "Sorry, I encountered an error")
  /\ UNCHANGED <<conversationHistories, sqlRequest, query, verdict, session, client, match, api, basket, toolCall, LLM_API_KEY>>

(***************************************************************************)
(* Routes (routes/chatbot.ts)                                              *)
(***************************************************************************)

\* respond: processChat has returned and the route sends the response.
Deliver(t) ==
  /\ turns[t].pc = "done"
  /\ turns' = [turns EXCEPT ![t] = [IdleTurn EXCEPT !.pc = "closed"]]
  /\ UNCHANGED <<conversationHistories, sqlRequest, query, verdict, session, client, match, api, basket, toolCall, LLM_API_KEY>>

\* clearHistory of an authenticated user.
ClearHistory(userId) ==
  /\ conversationHistories' = clearConversationHistory(conversationHistories, userId)
  /\ conversationHistories' # conversationHistories
  /\ UNCHANGED <<turns, sqlRequest, query, verdict, session, client, match, api, basket, toolCall, LLM_API_KEY>>

\* executeSQL: the statement of the request body goes to sequelize.query
\* as it is.
ExecuteSQL(sql) ==
  /\ sqlRequest = NothingSent
  /\ sqlRequest' = Sent("db", sql, sql, "none")
  /\ UNCHANGED <<conversationHistories, turns, query, verdict, session, client, match, api, basket, toolCall, LLM_API_KEY>>

\* executeSQL: the query returns and the results are sent.
ExecuteSQLDone ==
  /\ sqlRequest # NothingSent
  /\ sqlRequest' = NothingSent
  /\ UNCHANGED <<conversationHistories, turns, query, verdict, session, client, match, api, basket, toolCall, LLM_API_KEY>>

Next ==
  \/ \E t \in TurnIds, userId \in Users, isProductQuery \in BOOLEAN :
       Respond(t, userId, isProductQuery)
  \/ \E t \in TurnIds, found \in BOOLEAN : ProductLookup(t, found)
  \/ \E t \in TurnIds : ModelFails(t)
  \/ \E t \in TurnIds, content \in {"reply", NullContent} : ModelReplies(t, content)
  \/ \E t \in TurnIds, functionName \in botTools \cup {UnknownTool},
        argsValid \in BOOLEAN :
       \E modelUserId \in (IF TakesUserId(functionName) /\ argsValid
                           THEN Users \cup {NoUser} ELSE {NoUser}),
          text \in (IF argsValid THEN TextsOf(functionName) ELSE {<<>>}) :
         ModelRequestsTool(t, functionName, argsValid, modelUserId, text)
  \/ \E t \in TurnIds : ToolExec(t)
  \/ \E t \in TurnIds : AfterTool(t)
  \/ \E t \in TurnIds : \E basketCheck \in getBasket(turns[t].userId) :
       BasketCheck(t, basketCheck)
  \/ \E t \in TurnIds : FollowUpFails(t)
  \/ \E t \in TurnIds, content \in {"final", NullContent} :
       FollowUpReplies(t, content)
  \/ \E t \in TurnIds : UnexpectedError(t)
  \/ \E userId \in Users : ClearHistory(userId)
  \/ \E sql \in SqlSamples : ExecuteSQL(sql)
  \/ ExecuteSQLDone
  \/ \E t \in TurnIds : Deliver(t)

Spec == Init /\ [][Next]_vars

(***************************************************************************)
(* Evaluation of the pattern guardrail on its own                          *)
(***************************************************************************)

SqlTokens ==
  {"SELECT", "select", "FROM", "JOIN", "DROP", "c", "Products,", "SecurityAnswers"}

\* All token sequences of length 0..n.
RECURSIVE TokenSeqs(_)
TokenSeqs(n) ==
  IF n = 0 THEN {<<>>}
  ELSE LET shorter == TokenSeqs(n - 1)
       IN  shorter \cup {Append(q, tok) : q \in shorter, tok \in SqlTokens}

\* The statements evaluated: the token sequences up to MaxStmtLen, bare and
\* behind the head of a common table expression.
Queries(n) ==
  TokenSeqs(n) \cup {<<"WITH", "c">> \o q : q \in TokenSeqs(n)}

InitGuard ==
  /\ conversationHistories = [u \in Users |-> <<>>]
  /\ turns = [t \in TurnIds |-> IdleTurn]
  /\ sqlRequest = NothingSent
  /\ query \in Queries(MaxStmtLen)
  /\ verdict = "none"
  /\ session = NoSession
  /\ client = NoClient
  /\ match = NoMatch
  /\ api = NoApi
  /\ basket = NoBasket
  /\ toolCall = NoToolCall
  /\ LLM_API_KEY = TRUE

Evaluate ==
  /\ verdict = "none"
  /\ verdict' = IF isQueryAllowed(query) THEN "allowed" ELSE "denied"
  /\ UNCHANGED <<conversationHistories, turns, sqlRequest, query, session, client, match, api, basket, toolCall, LLM_API_KEY>>

NextGuard == Evaluate

SpecGuard == InitGuard /\ [][NextGuard]_vars

(***************************************************************************)
(* The history window on its own: one session, created by a read or by     *)
(* the first append, and a run of appends                                  *)
(***************************************************************************)

InitHistory ==
  /\ conversationHistories = [u \in Users |-> <<>>]
  /\ turns = [t \in TurnIds |-> IdleTurn]
  /\ sqlRequest = NothingSent
  /\ query = <<>>
  /\ verdict = "none"
  /\ session = NoSession
  /\ client = NoClient
  /\ match = NoMatch
  /\ api = NoApi
  /\ basket = NoBasket
  /\ toolCall = NoToolCall
  /\ LLM_API_KEY = TRUE

\* getConversationHistory on a user without an entry: system prompt and
\* greeting.
CreateSession ==
  /\ session.created = "none"
  /\ conversationHistories' = getConversationHistory(conversationHistories, 1)
  /\ session' = [session EXCEPT !.created = "greeting"]
  /\ UNCHANGED <<turns, sqlRequest, query, verdict, client, match, api, basket, toolCall, LLM_API_KEY>>

\* addToConversationHistory of one message; on a user without an entry it
\* creates the entry with the system prompt alone.
AppendMessage(role) ==
  /\ session.appended < MaxAppends
  /\ conversationHistories' =
       addToConversationHistory(conversationHistories, 1,
                                Message(role, session.appended + 1, "text"))
  /\ session' = [created |-> IF session.created = "none" THEN "system"
                             ELSE session.created,
                 appended |-> session.appended + 1]
  /\ UNCHANGED <<turns, sqlRequest, query, verdict, client, match, api, basket, toolCall, LLM_API_KEY>>

NextHistory ==
  \/ CreateSession
  \/ \E role \in {"user", "assistant"} : AppendMessage(role)

SpecHistory == InitHistory /\ [][NextHistory]_vars

(***************************************************************************)
(* Product name matching (frontend, chatbot.service.ts)                    *)
(***************************************************************************)

Chars == {"a", "A", "b", " "}

\* String.prototype.toLowerCase
toLowerCase(str) ==
  [i \in 1..Len(str) |-> IF str[i] = "A" THEN "a" ELSE str[i]]

\* String.prototype.includes
includes(str, sub) ==
  \E i \in 0..(Len(str) - Len(sub)) : SubSeq(str, i + 1, i + Len(sub)) = sub

\* str.split(' '): the pieces between single blanks; a string without a
\* blank is one piece, also when it is empty.
RECURSIVE split(_)
split(str) ==
  IF \A i \in 1..Len(str) : str[i] # " " THEN <<str>>
  ELSE LET i == CHOOSE k \in 1..Len(str) :
                  str[k] = " " /\ \A j \in 1..(k - 1) : str[j] # " "
       IN  <<SubSeq(str, 1, i - 1)>> \o split(SubSeq(str, i + 1, Len(str)))

\* Math.max
max(a, b) == IF a >= b THEN a ELSE b

\* Array.prototype.includes
includesWord(words, word) == \E i \in 1..Len(words) : words[i] = word

calculateNameMatchScore(search, actual) ==
  LET searchLower == toLowerCase(search)
      actualLower == toLowerCase(actual)
      searchWords == split(searchLower)
      actualWords == split(actualLower)
      commonWords == SelectSeq(searchWords,
                               LAMBDA word : includesWord(actualWords, word))
  IN  IF searchLower = actualLower THEN Fraction(1, 1)
      ELSE IF includes(actualLower, searchLower) THEN Fraction(9, 10)
      ELSE IF includes(searchLower, actualLower) THEN Fraction(8, 10)
      ELSE Fraction(Len(commonWords), max(Len(searchWords), Len(actualWords)))

(***************************************************************************)
(* ChatbotService.sendMessage (frontend), one action per stretch between   *)
(* awaits.  One call runs at a time: the chat window sends the next        *)
(* message when the response of the last one is shown.                     *)
(***************************************************************************)

\* The catalog: product id -> name.
ProductNames == << <<"a", " ", "b">>, <<"b">>, <<"A">> >>

ProductIds == 1..Len(ProductNames)

\* The product names a message can ask for.
RequestedNames == { <<"a">>, <<"b", " ", "b">>, <<"b", " ", " ">> }

\* A saveMessage that lets the failure of the request through.
saveMessage_rethrows(ok) ==
  [stored |-> IF ok THEN 1 ELSE 0, logged |-> 0, thrown |-> ~ok]

\* saveMessage: posts the message; a failure is written to the console and
\* goes no further.
saveMessage(ok) ==
  [stored |-> IF ok THEN 1 ELSE 0, logged |-> IF ok THEN 0 ELSE 1,
   thrown |-> FALSE]

\* The catch of sendMessage: the apology is returned, the context stays.
Caught(c) ==
  [c EXCEPT !.pc = "idle",
            !.response = ChatResponse("I apologize, but I encountered an error",
                                      FALSE, 0, TRUE)]

\* sendMessage is called and awaits saveMessage of the user message.
SendMessage(message) ==
  /\ client.pc = "idle"
  /\ client.sent < MaxMessages
  /\ client' = [client EXCEPT !.pc = "saveUser", !.sent = @ + 1,
                              !.message = message, !.productName = <<>>,
                              !.products = {}, !.product = NoProduct,
                              !.response = NoResponse]
  /\ UNCHANGED <<conversationHistories, turns, sqlRequest, query, verdict,
                 session, match, api, basket, toolCall, LLM_API_KEY>>

\* saveMessage of the user message returns; the intent is asked for.
SaveUserMessage(ok) ==
  /\ client.pc = "saveUser"
  /\ LET r == saveMessage(ok)
         c == [client EXCEPT !.stored = @ + r.stored, !.logged = @ + r.logged]
     IN  client' = IF r.thrown THEN Caught(c) ELSE [c EXCEPT !.pc = "classify"]
  /\ UNCHANGED <<conversationHistories, turns, sqlRequest, query, verdict,
                 session, match, api, basket, toolCall, LLM_API_KEY>>

\* classifyIntent and parseParameters return: a basket intent to add
\* productName goes to handleBasketAction, any other to handleGeneralQuery.
ClassifyIntent(type, productName) ==
  /\ client.pc = "classify"
  /\ client' = IF type = "basket"
               THEN [client EXCEPT !.pc = "resolve", !.productName = productName]
               ELSE [client EXCEPT !.pc = "general"]
  /\ UNCHANGED <<conversationHistories, turns, sqlRequest, query, verdict,
                 session, match, api, basket, toolCall, LLM_API_KEY>>

\* classifyIntent or parseParameters throws.
ClassifyFails ==
  /\ client.pc = "classify"
  /\ client' = Caught(client)
  /\ UNCHANGED <<conversationHistories, turns, sqlRequest, query, verdict,
                 session, match, api, basket, toolCall, LLM_API_KEY>>

\* resolveProductFromName: the products it can return for a search result,
\* null for an empty one, else a product of the highest score.
resolveProductFromName(productName, products) ==
  IF products = {} THEN {NoProduct}
  ELSE LET scored == {[id |-> p,
                       matches |-> calculateNameMatchScore(productName, ProductNames[p])] :
                      p \in products}
       IN  {x \in scored : \A y \in scored : ~LessThan(x.matches, y.matches)}

\* productService.search returns (a failed search counts as an empty
\* result: resolveProductFromName returns null for both).
ResolveProduct(products, product) ==
  /\ client.pc = "resolve"
  /\ product \in resolveProductFromName(client.productName, products)
  /\ client' = [client EXCEPT !.pc = "resolved", !.products = products,
                              !.product = product]
  /\ UNCHANGED <<conversationHistories, turns, sqlRequest, query, verdict,
                 session, match, api, basket, toolCall, LLM_API_KEY>>

\* handleBasketAction, action 'add', after resolveProductFromName: no
\* product, a product below the threshold, no basket id, or the save.
HandleBasketAdd(hasBasketId, saveOk) ==
  /\ client.pc = "resolved"
  /\ LET product == client.product
     IN  IF product = NoProduct
         THEN client' = [client EXCEPT !.pc = "saveBot",
                !.response = ChatResponse("I couldn't find a product matching", FALSE, 0, FALSE)]
         ELSE IF LessThan(product.matches, MATCH_THRESHOLD)
         THEN client' = [client EXCEPT !.pc = "saveBot",
                !.response = ChatResponse("Did you mean", TRUE, product.id, FALSE)]
         ELSE IF ~hasBasketId \/ ~saveOk
         THEN client' = [client EXCEPT !.pc = "saveBot",
                !.response = ChatResponse("Sorry, I couldn't add the item to your basket",
                                          FALSE, 0, TRUE)]
         ELSE client' = [client EXCEPT !.pc = "saveBot",
                !.saved = @ \cup {product.id},
                !.response = ChatResponse("Added", FALSE, product.id, FALSE)]
  /\ UNCHANGED <<conversationHistories, turns, sqlRequest, query, verdict,
                 session, match, api, basket, toolCall, LLM_API_KEY>>

\* handleGeneralQuery: the generated text, or the request to rephrase
\* when the generation fails.
HandleGeneralQuery(ok) ==
  /\ client.pc = "general"
  /\ client' = [client EXCEPT !.pc = "saveBot",
                  !.response = IF ok THEN ChatResponse("reply", FALSE, 0, FALSE)
                               ELSE ChatResponse("Could you rephrase that?", FALSE, 0, TRUE)]
  /\ UNCHANGED <<conversationHistories, turns, sqlRequest, query, verdict,
                 session, match, api, basket, toolCall, LLM_API_KEY>>

\* saveMessage of the response returns; the context is updated and the
\* response returned.
SaveBotMessage(ok) ==
  /\ client.pc = "saveBot"
  /\ LET r == saveMessage(ok)
         c == [client EXCEPT !.stored = @ + r.stored, !.logged = @ + r.logged]
     IN  client' = IF r.thrown THEN Caught(c)
                   ELSE [c EXCEPT !.pc = "idle", !.lastResponse = c.response]
  /\ UNCHANGED <<conversationHistories, turns, sqlRequest, query, verdict,
                 session, match, api, basket, toolCall, LLM_API_KEY>>

NextClient ==
  \/ \E message \in {"add", "yes"} : SendMessage(message)
  \/ \E ok \in BOOLEAN : SaveUserMessage(ok)
  \/ \E productName \in RequestedNames : ClassifyIntent("basket", productName)
  \/ ClassifyIntent("general", <<>>)
  \/ ClassifyFails
  \/ \E products \in SUBSET ProductIds :
       \E product \in resolveProductFromName(client.productName, products) :
         ResolveProduct(products, product)
  \/ \E hasBasketId \in BOOLEAN, saveOk \in BOOLEAN :
       HandleBasketAdd(hasBasketId, saveOk)
  \/ \E ok \in BOOLEAN : HandleGeneralQuery(ok)
  \/ \E ok \in BOOLEAN : SaveBotMessage(ok)

SpecClient == Init /\ [][NextClient]_vars

(***************************************************************************)
(* ChatbotService.sendMessage in the version that asks the backend         *)
(* directly (POST /respond), one action per stretch between awaits.        *)
(***************************************************************************)

\* A request the service posts: the endpoint and the role of the message.
Request(url, role) == [url |-> url, role |-> role]

\* The service with no call of sendMessage under way.
\*   pc        where sendMessage is suspended ("idle": not running)
\*   sent      the calls of sendMessage so far
\*   requests  the requests the last call has posted, in their order
\*   replied   the respond request of the last call was answered
\*   response  the response sendMessage returned
\*   stored    the messages the messages endpoint has accepted: the role
\*             and the call
\*   logged    the save failures written to the console
NoDirectClient ==
  [pc |-> "idle", sent |-> 0, requests |-> <<>>, replied |-> FALSE,
   response |-> NoResponse, stored |-> <<>>, logged |-> 0]

InitDirect ==
  /\ conversationHistories = [u \in Users |-> <<>>]
  /\ turns = [t \in TurnIds |-> IdleTurn]
  /\ sqlRequest = NothingSent
  /\ query = <<>>
  /\ verdict = "none"
  /\ session = NoSession
  /\ client = NoDirectClient
  /\ match = NoMatch
  /\ api = NoApi
  /\ basket = NoBasket
  /\ toolCall = NoToolCall
  /\ LLM_API_KEY = TRUE

\* sendMessage is called and posts the user message.
SendMessageDirect ==
  /\ client.pc = "idle"
  /\ client.sent < MaxMessages
  /\ client' = [client EXCEPT !.pc = "saveUser", !.sent = @ + 1,
                              !.requests = <<Request("messages", "user")>>,
                              !.replied = FALSE, !.response = NoResponse]
  /\ UNCHANGED <<conversationHistories, turns, sqlRequest, query, verdict,
                 session, match, api, basket, toolCall, LLM_API_KEY>>

\* saveMessage of the user message returns; the respond request is posted.
UserMessageSaved(ok) ==
  /\ client.pc = "saveUser"
  /\ LET r == saveMessage(ok)
         c == [client EXCEPT
                 !.stored = IF r.stored = 1
                            THEN Append(@, [role |-> "user", call |-> client.sent])
                            ELSE @,
                 !.logged = @ + r.logged]
     IN  client' = IF r.thrown THEN Caught(c)
                   ELSE [c EXCEPT !.pc = "respond",
                                  !.requests = Append(@, Request("respond", "none"))]
  /\ UNCHANGED <<conversationHistories, turns, sqlRequest, query, verdict,
                 session, match, api, basket, toolCall, LLM_API_KEY>>

\* A sendMessage that stores its apology when the respond request fails.
RespondFails_storesApology ==
  /\ client.pc = "respond"
  /\ client' = [Caught(client) EXCEPT
                  !.requests = Append(@, Request("messages", "assistant")),
                  !.stored = Append(@, [role |-> "assistant", call |-> client.sent])]
  /\ UNCHANGED <<conversationHistories, turns, sqlRequest, query, verdict,
                 session, match, api, basket, toolCall, LLM_API_KEY>>

\* The respond request fails: the catch returns the apology.
RespondFails ==
  /\ client.pc = "respond"
  /\ client' = Caught(client)
  /\ UNCHANGED <<conversationHistories, turns, sqlRequest, query, verdict,
                 session, match, api, basket, toolCall, LLM_API_KEY>>

\* The respond request is answered; the body is posted as the assistant
\* message.
RespondReplies ==
  /\ client.pc = "respond"
  /\ client' = [client EXCEPT !.pc = "saveBot", !.replied = TRUE,
                              !.requests = Append(@, Request("messages", "assistant"))]
  /\ UNCHANGED <<conversationHistories, turns, sqlRequest, query, verdict,
                 session, match, api, basket, toolCall, LLM_API_KEY>>

\* saveMessage of the assistant message returns; the body is returned.
AssistantMessageSaved(ok) ==
  /\ client.pc = "saveBot"
  /\ LET r == saveMessage(ok)
         c == [client EXCEPT
                 !.stored = IF r.stored = 1
                            THEN Append(@, [role |-> "assistant", call |-> client.sent])
                            ELSE @,
                 !.logged = @ + r.logged]
     IN  client' = IF r.thrown THEN Caught(c)
                   ELSE [c EXCEPT !.pc = "idle",
                                  !.response = ChatResponse("reply", FALSE, 0, FALSE)]
  /\ UNCHANGED <<conversationHistories, turns, sqlRequest, query, verdict,
                 session, match, api, basket, toolCall, LLM_API_KEY>>

NextDirect ==
  \/ SendMessageDirect
  \/ \E ok \in BOOLEAN : UserMessageSaved(ok)
  \/ RespondFails
  \/ RespondReplies
  \/ \E ok \in BOOLEAN : AssistantMessageSaved(ok)

SpecDirect == InitDirect /\ [][NextDirect]_vars

(***************************************************************************)
(* calculateNameMatchScore on its own                                      *)
(***************************************************************************)

\* All strings of length 0..n.
RECURSIVE Strings(_)
Strings(n) ==
  IF n = 0 THEN {<<>>}
  ELSE LET shorter == Strings(n - 1)
       IN  shorter \cup {Append(str, ch) : str \in shorter, ch \in Chars}

InitScore ==
  /\ conversationHistories = [u \in Users |-> <<>>]
  /\ turns = [t \in TurnIds |-> IdleTurn]
  /\ sqlRequest = NothingSent
  /\ query = <<>>
  /\ verdict = "none"
  /\ session = NoSession
  /\ client = NoClient
  /\ match \in {[search |-> x, actual |-> y, score |-> NoScore] :
                x \in Strings(MaxNameLen), y \in Strings(MaxNameLen)}
  /\ api = NoApi
  /\ basket = NoBasket
  /\ toolCall = NoToolCall
  /\ LLM_API_KEY = TRUE

Calculate ==
  /\ match.score = NoScore
  /\ match' = [match EXCEPT !.score = calculateNameMatchScore(match.search, match.actual)]
  /\ UNCHANGED <<conversationHistories, turns, sqlRequest, query, verdict,
                 session, client, api, basket, toolCall, LLM_API_KEY>>

NextScore == Calculate

SpecScore == InitScore /\ [][NextScore]_vars

(***************************************************************************)
(* The chat routes (routes/chatbot.ts) from the arrival of a request to    *)
(* its rejection or, for respond, to the call of processChat               *)
(***************************************************************************)

Tokens ==
  {Token("none", NoUser)} \cup
  {Token(kind, u) : kind \in {"invalid", "stale", "valid"}, u \in Users}

\* A getUserFromJwt that trusts the payload of a token it has not verified.
getUserFromJwt_trustsPayload(token) == token.user

\* req.cookies.token || utils.jwtFrom(req), then getUserFromJwt: the user
\* of a token that verifies and whose user exists, else null.
getUserFromJwt(token) ==
  IF token.kind = "valid" THEN token.user ELSE NoUser

\* The response of a route is sent.
Answer(route, token, q, status) ==
  [api EXCEPT !.route = route, !.token = token, !.query = q, !.status = status,
              !.returned = <<>>]

\* A saveMessage that takes the owner of the row from the request body
\* when the body names one.
chatMessage_ownerFromBody(userId, bodyUserId, rows, sameTick) ==
  [UserId |-> IF bodyUserId # NoUser THEN bodyUserId ELSE userId,
   id |-> Len(rows) + 1,
   timestamp |-> IF rows = <<>> THEN 1
                 ELSE IF sameTick THEN rows[Len(rows)].timestamp
                 ELSE rows[Len(rows)].timestamp + 1]

\* ChatModel.create({ UserId: user.id, message, role }): the row belongs to
\* the authenticated user, whatever the body says; its timestamp is the
\* time of creation, which may be that of the row before it.
chatMessage(userId, bodyUserId, rows, sameTick) ==
  [UserId |-> userId,
   id |-> Len(rows) + 1,
   timestamp |-> IF rows = <<>> THEN 1
                 ELSE IF sameTick THEN rows[Len(rows)].timestamp
                 ELSE rows[Len(rows)].timestamp + 1]

\* ChatModel.findAll({ where: { UserId }, order: [['timestamp', 'ASC']] })
\* on rows kept in the order of their creation.
findAll(rows, userId) == SelectSeq(rows, LAMBDA r : r.UserId = userId)

\* respond: 401 without a user; the greeting for an empty query; else
\* processChat is called with the user's id.
RespondRoute(token, q, t, isProductQuery) ==
  LET userId == getUserFromJwt(token)
  IN  /\ IF userId = NoUser
         THEN /\ api' = Answer("respond", token, q, "401")
              /\ UNCHANGED <<conversationHistories, turns>>
         ELSE IF q = ""
         THEN /\ api' = Answer("respond", token, q, "200")
              /\ UNCHANGED <<conversationHistories, turns>>
         ELSE /\ processChat(t, userId, isProductQuery)
              /\ api' = Answer("respond", token, q,
                               IF LLM_API_KEY THEN "pending" ELSE "200")
      /\ UNCHANGED <<sqlRequest, query, verdict, session, client, match, basket, toolCall, LLM_API_KEY>>

\* clearHistory: 401 without a user; else the history of the user is
\* cleared.
ClearHistoryRoute(token) ==
  LET userId == getUserFromJwt(token)
  IN  /\ IF userId = NoUser
         THEN /\ api' = Answer("clearHistory", token, "none", "401")
              /\ UNCHANGED conversationHistories
         ELSE /\ api' = Answer("clearHistory", token, "none", "200")
              /\ conversationHistories' =
                   clearConversationHistory(conversationHistories, userId)
      /\ UNCHANGED <<turns, sqlRequest, query, verdict, session, client, match, basket, toolCall, LLM_API_KEY>>

\* saveMessage: 401 without a user; 400 without message or role; else a
\* row is created (a failure of the database goes to the error handler).
SaveMessageRoute(token, complete, created, bodyUserId, sameTick) ==
  LET userId == getUserFromJwt(token)
  IN  /\ IF userId = NoUser
         THEN api' = Answer("saveMessage", token, "none", "401")
         ELSE IF ~complete
         THEN api' = Answer("saveMessage", token, "none", "400")
         ELSE IF ~created
         THEN api' = Answer("saveMessage", token, "none", "500")
         ELSE /\ Len(api.rows) < MaxRows
              /\ api' = [Answer("saveMessage", token, "none", "200")
                           EXCEPT !.rows = Append(@,
                             chatMessage(userId, bodyUserId, api.rows, sameTick))]
      /\ UNCHANGED <<conversationHistories, turns, sqlRequest, query, verdict,
                     session, client, match, basket, toolCall, LLM_API_KEY>>

\* getMessages: 401 without a user; else the rows of the user.
GetMessagesRoute(token) ==
  LET userId == getUserFromJwt(token)
  IN  /\ api' = IF userId = NoUser
                THEN Answer("getMessages", token, "none", "401")
                ELSE [Answer("getMessages", token, "none", "200")
                        EXCEPT !.returned = findAll(api.rows, userId)]
      /\ UNCHANGED <<conversationHistories, turns, sqlRequest, query, verdict,
                     session, client, match, basket, toolCall, LLM_API_KEY>>

NextRoutes ==
  \/ \E token \in Tokens, q \in {"", "text"}, t \in TurnIds,
        isProductQuery \in BOOLEAN : RespondRoute(token, q, t, isProductQuery)
  \/ \E token \in Tokens : ClearHistoryRoute(token)
  \/ \E token \in Tokens, complete \in BOOLEAN, created \in BOOLEAN,
        bodyUserId \in Users \cup {NoUser}, sameTick \in BOOLEAN :
       SaveMessageRoute(token, complete, created, bodyUserId, sameTick)
  \/ \E token \in Tokens : GetMessagesRoute(token)

SpecRoutes == Init /\ [][NextRoutes]_vars

\* The routes of a process started without a key of the model API.
InitNoKey ==
  /\ conversationHistories = [u \in Users |-> <<>>]
  /\ turns = [t \in TurnIds |-> IdleTurn]
  /\ sqlRequest = NothingSent
  /\ query = <<>>
  /\ verdict = "none"
  /\ session = NoSession
  /\ client = NoClient
  /\ match = NoMatch
  /\ api = NoApi
  /\ basket = NoBasket
  /\ toolCall = NoToolCall
  /\ LLM_API_KEY = FALSE

SpecNoKey == InitNoKey /\ [][NextRoutes]_vars

(***************************************************************************)
(* executeSqlQuery on its own                                              *)
(***************************************************************************)

\* The limit clauses a statement can end with.
LimitClauses ==
  {<<>>} \cup {<<kw, n>> : kw \in {"LIMIT", "limit"}, n \in {"5", "100", "1000"}}

\* The statements a model may hand to the tool.
SqlToolQueries ==
  {head \o from \o limit :
     head \in {<<"SELECT", "c">>, <<"select", "c">>, <<"SELECT", "LIMITS">>,
               <<"SELECT", "*">>},
     from \in {<<"FROM", "Products">>, <<"FROM", "Users">>,
               <<"FROM", "Products", "WHERE", "c">>},
     limit \in LimitClauses}
  \cup
  {update \o limit :
     update \in {<<"UPDATE", "Users", "SET", "c">>,
                 <<"update", "Users", "set", "c">>,
                 <<"DELETE", "FROM", "Products">>,
                 <<"DELETE", "FROM", "Users">>,
                 <<"DROP", "TABLE", "Users">>},
     limit \in LimitClauses}

InitSqlTool ==
  /\ conversationHistories = [u \in Users |-> <<>>]
  /\ turns = [t \in TurnIds |-> IdleTurn]
  /\ sqlRequest = NothingSent
  /\ query \in SqlToolQueries
  /\ verdict = "none"
  /\ session = NoSession
  /\ client = NoClient
  /\ match = NoMatch
  /\ api = NoApi
  /\ basket = NoBasket
  /\ toolCall = NoToolCall
  /\ LLM_API_KEY = TRUE

\* executeSqlQuery(query) up to its await of sequelize.query, or to the
\* return of the security error.
ExecuteSqlQuery ==
  /\ verdict = "none"
  /\ LET r == executeSqlQuery(query)
     IN  /\ sqlRequest' = r.sent
         /\ verdict' = IF r.sent = NothingSent THEN "denied" ELSE "allowed"
  /\ UNCHANGED <<conversationHistories, turns, query, session, client, match,
                 api, basket, toolCall, LLM_API_KEY>>

NextSqlTool == ExecuteSqlQuery

SpecSqlTool == InitSqlTool /\ [][NextSqlTool]_vars

(***************************************************************************)
(* The basket tools (lib/chatbot.ts) on the basket of one user             *)
(***************************************************************************)

\* The parameters.quantity a model can give: none, or a number.
Quantities == {<<>>} \cup {<<n>> : n \in 1..MaxQuantity}

\* removeFromBasket(userId, productId, quantity: number = 1): the quantity
\* the function works with.
quantityOrDefault(quantity) == IF quantity = <<>> THEN 1 ELSE quantity[1]

\* const newQuantity = basketItem.quantity - quantity; the item is
\* destroyed when that is zero or less, else updated to it.
newQuantity(held, quantity) ==
  LET n == held - quantityOrDefault(quantity)
  IN  IF n <= 0 THEN 0 ELSE n

\* add_to_basket with a quantity: the item is created, or its quantity
\* raised.
AddToBasket(productId, quantity) ==
  /\ basket.items[productId] + quantity <= MaxQuantity
  /\ basket' = [items |-> [basket.items EXCEPT ![productId] = @ + quantity],
                call |-> BasketCall("add_to_basket", productId, <<quantity>>, "none")]
  /\ UNCHANGED <<conversationHistories, turns, sqlRequest, query, verdict,
                 session, client, match, api, toolCall, LLM_API_KEY>>

\* remove_from_basket, with or without a quantity.
RemoveFromBasket(productId, quantity) ==
  /\ IF basket.items[productId] = 0
     THEN basket' = [basket EXCEPT !.call =
            BasketCall("remove_from_basket", productId, quantity,
                       "Item not found in basket")]
     ELSE basket' =
            [items |-> [basket.items EXCEPT
                          ![productId] = newQuantity(@, quantity)],
             call |-> BasketCall("remove_from_basket", productId, quantity, "none")]
  /\ UNCHANGED <<conversationHistories, turns, sqlRequest, query, verdict,
                 session, client, match, api, toolCall, LLM_API_KEY>>

NextBasket ==
  \/ \E productId \in 1..NumProducts, quantity \in 1..MaxQuantity :
       AddToBasket(productId, quantity)
  \/ \E productId \in 1..NumProducts, quantity \in Quantities :
       RemoveFromBasket(productId, quantity)

SpecBasket == Init /\ [][NextBasket]_vars

(***************************************************************************)
(* addToBasket, one action per stretch between its awaits: calls of the    *)
(* same user run side by side (two requests, two windows).                 *)
(***************************************************************************)

NumCalls == 2
MaxEarlier == 1

Calls == 1..NumCalls

\* A call of addToBasket.
\*   pc         "idle" | "found" (BasketItemModel.findOne has returned) |
\*              "done" (success: true) | "failed" (the catch)
\*   productId, quantity   the arguments
\*   basketItem the row findOne returned: <<>> for null, else
\*              <<its index, its quantity when read>>
IdleCall == [pc |-> "idle", productId |-> 0, quantity |-> 0, basketItem |-> <<>>]

\* A row of BasketItems of the user's basket.
BasketItem(productId, quantity) == [ProductId |-> productId, quantity |-> quantity]

\* BasketItemModel.findOne({ where: { BasketId, ProductId } }): the first
\* row of the product, null without one.
findOne(rows, productId) ==
  LET found == {i \in 1..Len(rows) : rows[i].ProductId = productId}
  IN  IF found = {} THEN <<>>
      ELSE LET i == CHOOSE i \in found : \A j \in found : i <= j
           IN  <<i, rows[i].quantity>>

\* const newQuantity = basketItem.quantity + quantity;
\* basketItem.update({ quantity: newQuantity }): the quantity that was read
\* plus the quantity of the call.
updated(rows, basketItem, quantity) ==
  [rows EXCEPT ![basketItem[1]].quantity = basketItem[2] + quantity]

\* The basket of a user with the rows it held before the calls.
\*   earlier  product id -> the quantity held before the calls
\*   rows     the rows of BasketItems
\*   calls    the calls of addToBasket
EarlierBasket(earlier) ==
  [earlier |-> earlier,
   rows |-> SelectSeq([p \in 1..NumProducts |-> BasketItem(p, earlier[p])],
                      LAMBDA r : r.quantity > 0),
   calls |-> [c \in Calls |-> IdleCall]]

InitBasketRace ==
  /\ conversationHistories = [u \in Users |-> <<>>]
  /\ turns = [t \in TurnIds |-> IdleTurn]
  /\ sqlRequest = NothingSent
  /\ query = <<>>
  /\ verdict = "none"
  /\ session = NoSession
  /\ client = NoClient
  /\ match = NoMatch
  /\ api = NoApi
  /\ basket \in {EarlierBasket(earlier) :
                   earlier \in [1..NumProducts -> 0..MaxEarlier]}
  /\ toolCall = NoToolCall
  /\ LLM_API_KEY = TRUE

\* addToBasket is called and runs up to the return of findOne on
\* BasketItems (user, basket and product exist).
FindBasketItem(c, productId, quantity) ==
  /\ basket.calls[c].pc = "idle"
  /\ basket' = [basket EXCEPT !.calls[c] =
                  [pc |-> "found", productId |-> productId, quantity |-> quantity,
                   basketItem |-> findOne(basket.rows, productId)]]
  /\ UNCHANGED <<conversationHistories, turns, sqlRequest, query, verdict,
                 session, client, match, api, toolCall, LLM_API_KEY>>

\* The row that was found is updated, or a row is created.  Whether the
\* table refuses a second row of the same basket and product depends on
\* its definition (`unique`); a refused create goes to the catch.
WriteBasketItem(c, unique) ==
  LET call == basket.calls[c]
  IN  /\ call.pc = "found"
      /\ IF call.basketItem # <<>>
         THEN basket' = [basket EXCEPT
                !.rows = updated(@, call.basketItem, call.quantity),
                !.calls[c].pc = "done"]
         ELSE IF unique /\ findOne(basket.rows, call.productId) # <<>>
         THEN basket' = [basket EXCEPT !.calls[c].pc = "failed"]
         ELSE basket' = [basket EXCEPT
                !.rows = Append(@, BasketItem(call.productId, call.quantity)),
                !.calls[c].pc = "done"]
      /\ UNCHANGED <<conversationHistories, turns, sqlRequest, query, verdict,
                     session, client, match, api, toolCall, LLM_API_KEY>>

NextBasketRace ==
  \/ \E c \in Calls, productId \in 1..NumProducts, quantity \in 1..MaxQuantity :
       FindBasketItem(c, productId, quantity)
  \/ \E c \in Calls, unique \in BOOLEAN : WriteBasketItem(c, unique)

SpecBasketRace == InitBasketRace /\ [][NextBasketRace]_vars

(***************************************************************************)
(* executeToolFunction and the tools, by the arguments a call is given     *)
(***************************************************************************)

\* The `required` list of the tool's declaration.
required(functionName) ==
  CASE functionName = "get_product_information" -> {"query"}
    [] functionName = "get_user_information" -> {"userId"}
    [] functionName = "add_to_basket" -> {"userId", "productId", "quantity"}
    [] functionName = "get_basket" -> {"userId"}
    [] functionName = "remove_from_basket" -> {"userId", "productId"}
    [] functionName = "generate_coupon" -> {"discount"}
    [] functionName = "execute_sql_query" -> {"query", "explanation"}
    [] functionName = "execute_linux_command" -> {"command", "userId"}
    [] OTHER -> {}

\* Math.min
min(a, b) == IF a <= b THEN a ELSE b

\* A generateCoupon that takes the requested discount as it is.
safeDiscount_unclamped(discount) == discount

\* const safeDiscount = Math.min(Math.max(discount, 10), 20)
safeDiscount(discount) == min(max(discount, 10), 20)

\* The outcomes of a call of the tool that lacks the argument `missing`
\* ("none": no argument is missing).  The database, the host and
\* security.generateCoupon decide between them.
toolOutcomes(functionName, missing, discount, hasBasket, writes) ==
  CASE functionName = "get_product_information" ->
         \* query.toLowerCase() throws on undefined
         IF missing = "query"
         THEN {Outcome("Failed to get product information", FALSE, <<>>)}
         ELSE {Outcome("none", FALSE, <<>>),
               Outcome("Failed to get product information", FALSE, <<>>)}
    [] functionName = "get_user_information" ->
         IF missing = "userId"
         THEN {Outcome("User not found", FALSE, <<>>),
               Outcome("Failed to get user information", FALSE, <<>>)}
         ELSE {Outcome("none", FALSE, <<>>),
               Outcome("User not found", FALSE, <<>>),
               Outcome("Failed to get user information", FALSE, <<>>)}
    [] functionName = "add_to_basket" ->
         \* the basket is found or created before the product is looked
         \* up; the quantity goes to the item unchecked
         IF missing = "userId"
         THEN {Outcome("User ID is required", FALSE, <<>>)}
         ELSE IF missing = "productId"
         THEN {Outcome("User not found - could not add item to basket", FALSE, <<>>),
               Outcome("Product not found", ~hasBasket, <<>>)}
              \cup (IF hasBasket THEN {}
                    ELSE {Outcome("Could not create basket", FALSE, <<>>)})
         ELSE IF missing = "quantity"
         THEN {Outcome("User not found - could not add item to basket", FALSE, <<>>),
               Outcome("none", TRUE, <<>>),
               Outcome("Failed to add product to basket", ~hasBasket, <<>>)}
         ELSE {Outcome("User not found - could not add item to basket", FALSE, <<>>),
               Outcome("Product not found", ~hasBasket, <<>>),
               Outcome("none", TRUE, <<>>)}
    [] functionName = "get_basket" ->
         IF missing = "userId"
         THEN {Outcome("User ID is required", FALSE, <<>>)}
         ELSE {Outcome("none", FALSE, <<>>),
               Outcome("User not found - could not retrieve basket", FALSE, <<>>)}
    [] functionName = "remove_from_basket" ->
         IF missing = "userId"
         THEN {Outcome("User ID is required", FALSE, <<>>)}
         ELSE IF ~hasBasket
         THEN {Outcome("Basket not found", FALSE, <<>>)}
         ELSE IF missing = "productId"
         THEN {Outcome("Product not found", FALSE, <<>>)}
         ELSE {Outcome("Item not found in basket", FALSE, <<>>),
               Outcome("none", TRUE, <<>>)}
    [] functionName = "generate_coupon" ->
         \* without a discount safeDiscount is NaN and the coupon, if
         \* security.generateCoupon returns one, has no discount
         {Outcome("Failed to generate coupon", FALSE, <<>>),
          Outcome("none", FALSE,
                  IF missing = "discount" THEN <<>> ELSE <<safeDiscount(discount)>>)}
    [] functionName = "execute_sql_query" ->
         \* query.includes throws on undefined; explanation is only
         \* copied into the result
         IF missing = "query"
         THEN {Outcome("This query cannot be executed for security reasons", FALSE, <<>>),
               Outcome("Failed to execute SQL query", FALSE, <<>>)}
         ELSE {Outcome("This query cannot be executed for security reasons", FALSE, <<>>),
               Outcome("Failed to execute SQL query", FALSE, <<>>),
               Outcome("none", writes, <<>>)}
    [] functionName = "execute_linux_command" ->
         \* exec throws on undefined; userId is never read
         IF missing = "command"
         THEN {Outcome("Failed to execute Linux command", FALSE, <<>>)}
         ELSE {Outcome("Failed to execute Linux command", FALSE, <<>>),
               Outcome("none", writes, <<>>)}
    [] OTHER ->
         {Outcome("Error executing function: Unknown function", FALSE, <<>>)}

\* A call of executeToolFunction from its start to its return.
ExecuteToolFunction(functionName, missing, discount, hasBasket, writes, outcome) ==
  /\ missing \in required(functionName) \cup {"none"}
  /\ outcome \in toolOutcomes(functionName, missing, discount, hasBasket, writes)
  /\ toolCall' = ToolCall(functionName, missing, discount, hasBasket, writes, outcome)
  /\ UNCHANGED <<conversationHistories, turns, sqlRequest, query, verdict,
                 session, client, match, api, basket, LLM_API_KEY>>

NextTools ==
  \E functionName \in botTools, hasBasket \in BOOLEAN, writes \in BOOLEAN :
    \E missing \in required(functionName) \cup {"none"},
       discount \in (IF functionName = "generate_coupon"
                     THEN 0..MaxRequestedDiscount ELSE {0}) :
      \E outcome \in toolOutcomes(functionName, missing, discount, hasBasket, writes) :
        ExecuteToolFunction(functionName, missing, discount, hasBasket, writes, outcome)

SpecTools == Init /\ [][NextTools]_vars

(***************************************************************************)
(* Properties                                                              *)
(***************************************************************************)

\* The tools whose semantics are scoped to the current user.
UserScopedTools ==
  {"get_user_information", "get_basket", "add_to_basket", "remove_from_basket"}

\* C1: every user-scoped tool (get_user_information, get_basket,
\* add_to_basket, remove_from_basket) runs with the authenticated userId of
\* the processChat call, whatever userId the model put in the arguments.
C1_ToolRunsAsAuthenticatedUser ==
  \A t \in TurnIds :
    (turns[t].pc = "toolDone" /\ turns[t].functionName \in UserScopedTools)
      => turns[t].execUserId = turns[t].userId

\* C2: execute_linux_command runs a command on the host only after the
\* guardrail has evaluated that command and allowed it; a denied command
\* is not run and its result has error set.
C2_CommandOnlyAfterGuardrail ==
  \A t \in TurnIds :
    /\ turns[t].sent.kind = "host"
         => /\ turns[t].sent.guard = "allowed"
            /\ isSystemCommandAllowed(turns[t].sent.proposed)
    /\ (/\ turns[t].pc = "toolDone"
        /\ turns[t].functionName = "execute_linux_command"
        /\ ~isSystemCommandAllowed(turns[t].text))
         => /\ turns[t].sent = NothingSent
            /\ turns[t].functionResult.error # "none"

\* C3: in the SQL tool a statement the guardrail denies is not sent to the
\* database and its result has error set and no rows; a statement is sent
\* only after the guardrail allowed it.
C3_SqlToolGuarded ==
  \A t \in TurnIds :
    (turns[t].pc = "toolDone" /\ turns[t].functionName = "execute_sql_query")
      => /\ ~isDatabaseOperationAllowed(turns[t].text)
              => /\ turns[t].sent = NothingSent
                 /\ turns[t].functionResult.error # "none"
                 /\ turns[t].functionResult.data = "none"
         /\ turns[t].sent.kind = "db"
              => /\ turns[t].sent.guard = "allowed"
                 /\ turns[t].sent.proposed = turns[t].text
                 /\ isDatabaseOperationAllowed(turns[t].sent.proposed)

\* C3 witness: the SQL tool has returned for a statement the guardrail
\* denies.
C3_Witness ==
  \E t \in TurnIds :
    /\ turns[t].pc = "toolDone"
    /\ turns[t].functionName = "execute_sql_query"
    /\ ~isDatabaseOperationAllowed(turns[t].text)
    /\ turns[t].functionResult.error # "none"

\* C4: every SQL text executed because a request or a model output
\* supplied it (the execute-sql endpoint and the execute_sql_query tool)
\* was first evaluated and allowed by the guardrail.
C4_AllSqlGuarded ==
  /\ sqlRequest.kind = "db"
       => /\ sqlRequest.guard = "allowed"
          /\ isDatabaseOperationAllowed(sqlRequest.proposed)
  /\ \A t \in TurnIds :
       turns[t].sent.kind = "db"
         => /\ turns[t].sent.guard = "allowed"
            /\ isDatabaseOperationAllowed(turns[t].sent.proposed)

\* A position of the statement where a table is named: after FROM or JOIN,
\* or after a comma-terminated name that is itself at such a position.
RECURSIVE InTableList(_, _)
InTableList(stmt, i) ==
  /\ i \in 2..Len(stmt)
  /\ \/ toUpperCase(stmt[i - 1]) \in {"FROM", "JOIN"}
     \/ toUpperCase(stmt[i - 1]) = "PRODUCTS," /\ InTableList(stmt, i - 1)

\* The statement names a restricted table among the tables it reads.
ReferencesRestrictedTable(stmt) ==
  \E table \in RESTRICTED_TABLES : \E i \in 1..Len(stmt) :
    InTableList(stmt, i) /\ NamesTable(stmt[i], table)

\* C5: the SQL guardrail allows a statement if and only if it matches an
\* allow pattern, matches no deny pattern and references no restricted
\* table; a statement that matches a deny pattern or references a
\* restricted table is not allowed even when it matches an allow pattern.
C5_AllowedIffPolicy ==
  verdict # "none"
    => /\ verdict = "allowed"
            <=> /\ ALLOWED_SQL_PATTERNS(query)
                /\ ~DISALLOWED_SQL_PATTERNS(query)
                /\ ~ReferencesRestrictedTable(query)
       /\ (DISALLOWED_SQL_PATTERNS(query) \/ ReferencesRestrictedTable(query))
            => verdict = "denied"

\* The messages of a history that turns appended.
TurnsOf(h) == {h[i].turn : i \in 1..Len(h)} \ {0}

\* C6: the appends of two turns of the same user are never interleaved:
\* between two messages of one turn there is no message of another turn.
C6_TurnsSerialized ==
  \A u \in Users :
    LET h == conversationHistories[u]
    IN  \A i, j, k \in 1..Len(h) :
          (i < j /\ j < k /\ h[i].turn # 0 /\ h[i].turn = h[k].turn)
            => h[j].turn = h[i].turn

\* C7: a step taken for one user (an append, eviction or clear, a tool or
\* model call of that user's turn) leaves the history of every other user
\* unchanged.
C7_OtherUsersUntouched ==
  [][\A u \in Users :
       conversationHistories'[u] # conversationHistories[u]
         => /\ \A v \in Users \ {u} :
                 conversationHistories'[v] = conversationHistories[v]
            /\ \/ turns' = turns
               \/ \E t \in TurnIds :
                    /\ turns[t].userId = u \/ turns'[t].userId = u
                    /\ turns'[t] # turns[t]
                    /\ \A x \in TurnIds \ {t} : turns'[x] = turns[x]]_vars

\* C7 witness: two users have histories holding messages of turns, and a
\* turn of one of them is in flight.
C7_Witness ==
  /\ \A u \in Users : TurnsOf(conversationHistories[u]) # {}
  /\ \E t \in TurnIds : turns[t].pc = "llm2" /\ turns[t].userId = 1
  /\ \E t \in TurnIds : turns[t].pc = "llm1" /\ turns[t].userId = 2

\* The number of pinned prefix entries: the system prompt.
PinnedCount == 1

\* C8: after every append the history of a session is at most
\* MAX_HISTORY_LENGTH + P long, P the number of pinned prefix entries.
C8_HistoryBounded ==
  \A u \in Users :
    Len(conversationHistories[u]) <= MAX_HISTORY_LENGTH + PinnedCount

\* C8 witness: a history is at the bound and has lost its greeting.
C8_Witness ==
  \E u \in Users :
    LET h == conversationHistories[u]
    IN  /\ Len(h) = MAX_HISTORY_LENGTH + PinnedCount
        /\ \A i \in 1..Len(h) : h[i] # getGreeting

\* C9: the first element of every existing history is a system message.
C9_SystemFirst ==
  \A u \in Users :
    conversationHistories[u] # <<>> => conversationHistories[u][1].role = "system"

\* C9 witness: a full history from which every message of the first turn
\* was evicted.
C9_Witness ==
  \E u \in Users :
    LET h == conversationHistories[u]
    IN  /\ Len(h) = MAX_HISTORY_LENGTH + 1
        /\ h[1].role = "system"
        /\ h[2].turn >= 2

\* The last n elements of a sequence (all of it when it is shorter).
LastN(seq, n) ==
  IF Len(seq) <= n THEN seq ELSE SubSeq(seq, Len(seq) - n + 1, Len(seq))

\* The history `new` is `old` with k messages appended and the oldest
\* entries after the first `pinned` ones removed to keep at most
\* MAX_HISTORY_LENGTH unpinned entries.
AppendedEvictingOldest(old, new, pinned, k) ==
  /\ Len(new) >= pinned + k
  /\ LET added == LastN(new, k)
         unpinned == SubSeq(old, pinned + 1, Len(old)) \o added
     IN  new = SubSeq(old, 1, pinned) \o LastN(unpinned, MAX_HISTORY_LENGTH)

\* A step appends to the existing history of u.
AppendsTo(u) ==
  /\ conversationHistories[u] # <<>>
  /\ conversationHistories'[u] # conversationHistories[u]
  /\ turns' # turns

\* The pinned prefix of the claim: the system prompt, and the greeting of
\* a session that has one.
PinnedPrefixLen(h) == IF Len(h) >= 2 /\ h[2] = getGreeting THEN 2 ELSE 1

\* C10 as stated: on an append the system prompt and the greeting of a
\* session that has one stay, and the entries kept after them are the most
\* recent ones in their order.
C10_PinnedPrefixKept ==
  [][\A u \in Users :
       AppendsTo(u)
         => \E k \in 1..2 :
              AppendedEvictingOldest(conversationHistories[u], conversationHistories'[u],
                                     PinnedPrefixLen(conversationHistories[u]), k)]_vars

\* C10, amended: on an append the system prompt stays at index 0 and the
\* entries kept after it are the MAX_HISTORY_LENGTH most recent ones in
\* their order; the greeting is evicted like any other entry.
C10_SystemKeptOldestEvicted ==
  [][\A u \in Users :
       AppendsTo(u)
         => \E k \in 1..2 :
              AppendedEvictingOldest(conversationHistories[u], conversationHistories'[u],
                                     1, k)]_vars

\* C10 witness: an eviction has removed the greeting and the user message
\* of the first turn and kept that turn's reply as the oldest entry.
C10_Witness ==
  \E u \in Users :
    LET h == conversationHistories[u]
    IN  /\ Len(h) = MAX_HISTORY_LENGTH + 1
        /\ h[2].role = "assistant"
        /\ h[2].turn = 1

\* The pinned prefix entries the claim counts for a session: 2 for one
\* created with system prompt and greeting, 1 for one created with the
\* system prompt alone.
PinnedAtCreation == IF session.created = "greeting" THEN 2 ELSE 1

\* C11 as stated: after MAX_HISTORY_LENGTH + 5 appended messages the
\* history is MAX_HISTORY_LENGTH + P long, P the number of entries the
\* session was created with, and element 0 is the system message.
C11_LengthWithCreationPrefix ==
  session.appended = MAX_HISTORY_LENGTH + 5
    => /\ Len(conversationHistories[1]) = MAX_HISTORY_LENGTH + PinnedAtCreation
       /\ conversationHistories[1][1].role = "system"

\* C11, amended: after MAX_HISTORY_LENGTH + 5 appended messages the history
\* is MAX_HISTORY_LENGTH + 1 long, however the session was created, and
\* element 0 is the system message.
C11_LengthAfterAppends ==
  session.appended = MAX_HISTORY_LENGTH + 5
    => /\ Len(conversationHistories[1]) = MAX_HISTORY_LENGTH + 1
       /\ conversationHistories[1][1] = LLM_SYSTEM_PROMPT

\* C11 witness: a session created with system prompt and greeting has had
\* MAX_HISTORY_LENGTH + 5 messages appended.
C11_Witness ==
  /\ session.created = "greeting"
  /\ session.appended = MAX_HISTORY_LENGTH + 5
  /\ Len(conversationHistories[1]) = MAX_HISTORY_LENGTH + 1

\* The history is as a clear left it, but for what turns that were in
\* flight have appended since: the greeting is at index 1 and no request
\* has appended its user message.
NoRequestSinceClear(h) ==
  /\ Len(h) >= 2
  /\ h[2] = getGreeting
  /\ \A i \in 1..Len(h) : h[i].role # "user"

\* C12: a clear of an existing session leaves exactly the system prompt
\* and the greeting, and the first model request after it carries only
\* these two and the new user message.
C12_ClearLeavesPrefixOnly ==
  [][\A u \in Users :
       /\ (turns' = turns /\ conversationHistories'[u] # conversationHistories[u])
            => conversationHistories'[u] = <<LLM_SYSTEM_PROMPT, getGreeting>>
       /\ \A t \in TurnIds :
            (/\ turns[t].modelRequests = 0
             /\ turns'[t].modelRequests = 1
             /\ turns'[t].userId = u
             /\ NoRequestSinceClear(conversationHistories[u]))
              => conversationHistories'[u] =
                   <<LLM_SYSTEM_PROMPT, getGreeting, Message("user", t, "query")>>]_vars

\* C13: when the model asks for a tool that botTools does not declare,
\* the turn ends at once with an error response and the model is not
\* asked a second time.
C13_UnknownToolEndsTurn ==
  [][\A t \in TurnIds :
       (/\ turns[t].pc = "toolDone"
        /\ turns[t].functionName \notin botTools
        /\ turns'[t] # turns[t])
         => /\ turns'[t].pc = "done"
            /\ turns'[t].modelRequests = 1]_vars

\* C14: a tool call whose name is not declared has no side effect (nothing
\* sent to the database or the host, no user-scoped tool run) and the
\* dispatcher returns a result with error set and no data.
C14_UnknownToolFailsClosed ==
  \A t \in TurnIds :
    (turns[t].pc = "toolDone" /\ turns[t].functionName \notin botTools)
      => /\ turns[t].sent = NothingSent
         /\ turns[t].execUserId = NoUser
         /\ turns[t].functionResult.error # "none"
         /\ turns[t].functionResult.data = "none"

\* C14 witness: the dispatcher has returned for an undeclared name.
C14_Witness ==
  \E t \in TurnIds :
    /\ turns[t].pc = "toolDone"
    /\ turns[t].functionName = UnknownTool
    /\ turns[t].toolCalls = 1

\* C15: each of the two model requests of a turn is sent once, so a turn
\* has sent one request while it waits for the first answer and two while
\* it waits for the follow-up, never more; a failed request ends the turn
\* with its apology.
C15_ModelCallNotRepeated ==
  \A t \in TurnIds :
    /\ turns[t].modelRequests <= 2
    /\ turns[t].pc = "llm1" => turns[t].modelRequests = 1
    /\ turns[t].pc = "llm2" => turns[t].modelRequests = 2
    /\ turns[t].body = "error communicating with the AI service"
         => turns[t].pc = "done" /\ turns[t].modelRequests = 1
    /\ turns[t].body = "error while processing your request results"
         => turns[t].pc = "done" /\ turns[t].modelRequests = 2

\* C15 witness: the follow-up request of a turn has failed and the turn
\* has returned the apology.
C15_Witness ==
  \E t \in TurnIds :
    /\ turns[t].pc = "done"
    /\ turns[t].body = "error while processing your request results"
    /\ turns[t].toolCalls = 1

\* C16: a tool is called only with parsed arguments; when the arguments
\* do not parse the turn returns the rephrase message, having called no
\* tool and sent one model request.
C16_BadArgumentsEndTurn ==
  \A t \in TurnIds :
    /\ turns[t].pc \in {"tool", "toolDone"} => turns[t].parameters = "parsed"
    /\ turns[t].body = "Please try a different query"
         => /\ turns[t].pc = "done"
            /\ turns[t].toolCalls = 0
            /\ turns[t].modelRequests = 1

\* C16 witness: a turn has returned the rephrase message.
C16_Witness ==
  \E t \in TurnIds :
    turns[t].pc = "done" /\ turns[t].body = "Please try a different query"

\* C17: when the guardrail denies the statement of the SQL tool, the
\* result has error set, nothing was sent to the database, and the turn
\* returns at once with a body of the orchestrator, without a further
\* model request.
C17_DeniedSqlRefusedByOrchestrator ==
  [][\A t \in TurnIds :
       (/\ turns[t].pc = "toolDone"
        /\ turns[t].functionName = "execute_sql_query"
        /\ ~isDatabaseOperationAllowed(turns[t].text)
        /\ turns'[t] # turns[t])
         => /\ turns[t].functionResult.error # "none"
            /\ turns[t].sent = NothingSent
            /\ turns'[t].pc = "done"
            /\ turns'[t].modelRequests = 1]_vars

\* C18: every response processChat returns has a string body.
C18_ResponseBodyIsString ==
  \A t \in TurnIds :
    turns[t].pc = "done" => turns[t].body \notin {"none", NullContent}

\* C19: a turn calls executeToolFunction at most once, so no tool is
\* executed again after a failure in the same turn.
C19_OneToolCallPerTurn ==
  \A t \in TurnIds :
    /\ turns[t].toolCalls <= 1
    /\ turns[t].pc = "toolDone" => turns[t].toolCalls = 1

\* C19 witness: add_to_basket or remove_from_basket has failed and the
\* turn has returned.
C19_Witness ==
  \E t \in TurnIds :
    /\ turns[t].pc = "done"
    /\ turns[t].body = "basket action failed"
    /\ turns[t].toolCalls = 1

\* C20: a turn answered by the product lookup has sent no model request;
\* a turn leaves the lookup either with that answer or with the first
\* model request sent.
C20_ProductFastPath ==
  [][\A t \in TurnIds :
       (turns[t].pc = "product" /\ turns'[t] # turns[t])
         => \/ /\ turns'[t].pc = "done"
               /\ turns'[t].body = "Here are our products"
               /\ turns'[t].modelRequests = 0
            \/ /\ turns'[t].pc = "llm1"
               /\ turns'[t].modelRequests = 1]_vars

\* C20 witness: a turn was answered by the product lookup.
C20_Witness ==
  \E t \in TurnIds :
    /\ turns[t].pc = "done"
    /\ turns[t].body = "Here are our products"
    /\ turns[t].modelRequests = 0

\* The last message of a history.
Last(h) == h[Len(h)]

\* C21: in a turn whose tool result has no immediate response, the result
\* is appended and the follow-up request is sent with it as the last
\* message of the history; the reply to that request is appended and
\* returned as the body.
C21_ToolRoundTripOrder ==
  [][\A t \in TurnIds :
       /\ (turns[t].pc = "toolDone" /\ turns'[t].pc = "llm2")
            => /\ turns'[t].modelRequests = turns[t].modelRequests + 1
               /\ Last(conversationHistories'[turns[t].userId]) =
                    Message("function", t, "functionResult")
       /\ (turns[t].pc = "llm2" /\ turns'[t].body \in {"final", NullContent})
            => /\ turns'[t].pc = "done"
               /\ conversationHistories' # conversationHistories
               /\ Last(conversationHistories'[turns[t].userId]) =
                    Message("assistant", t, "final")]_vars

\* C21 witness: a turn has returned the reply of its follow-up request and
\* that reply is the last message of a history.
C21_Witness ==
  \E t \in TurnIds, u \in Users :
    /\ turns[t].pc = "done"
    /\ turns[t].body = "final"
    /\ turns[t].modelRequests = 2
    /\ conversationHistories[u] # <<>>
    /\ Last(conversationHistories[u]) = Message("assistant", t, "final")

\* The tool result describes itself: an empty basket, or a user that was
\* not found.
SelfDescribing(functionName, result) ==
  \/ functionName = "get_basket" /\ result.data = "empty"
  \/ result.error \in {"User not found",
                       "User not found - could not add item to basket",
                       "User not found - could not remove item from basket",
                       "User not found - could not retrieve basket"}

\* C22: when the tool result is self-describing the turn returns at once
\* with a fixed body and sends no second model request.
C22_SelfDescribingResultEndsTurn ==
  [][\A t \in TurnIds :
       (/\ turns[t].pc = "toolDone"
        /\ SelfDescribing(turns[t].functionName, turns[t].functionResult)
        /\ turns'[t] # turns[t])
         => /\ turns'[t].pc = "done"
            /\ turns'[t].modelRequests = 1
            /\ turns'[t].body \in {"Your basket is currently empty",
                                   "couldn't access your user information",
                                   "basket action failed",
                                   "trouble retrieving your basket"}
            /\ conversationHistories' = conversationHistories]_vars

\* C22 witness: get_user_information did not find the user and the turn
\* has returned the fixed body.
C22_Witness ==
  \E t \in TurnIds :
    /\ turns[t].pc = "done"
    /\ turns[t].body = "couldn't access your user information"
    /\ turns[t].toolCalls = 1
    /\ turns[t].modelRequests = 1

\* The score is at least 0.8.
GoodMatch(score) == score.num * 10 >= 8 * score.den

\* The score of a product of the catalog against the requested name.
ScoreOf(p) == calculateNameMatchScore(client.productName, ProductNames[p])

\* A step of handleBasketAction after the product was resolved.
HandlesAdd == client.pc = "resolved" /\ client'.pc = "saveBot"

\* C23 (as stated): in the basket-add flow, when no product scores at least
\* 0.8 against the requested name the response carries requiresConfirmation
\* = true and the basket is not modified; the basket is modified only when
\* the best score is at least 0.8.
C23_ConfirmationUnlessGoodMatch ==
  [][HandlesAdd =>
       /\ (~\E p \in client.products : GoodMatch(ScoreOf(p))) =>
            /\ client'.response.requiresConfirmation
            /\ client'.saved = client.saved
       /\ client'.saved # client.saved =>
            \E p \in client.products : GoodMatch(ScoreOf(p))]_vars

\* C23 (amended): when the search returns products and none scores at
\* least 0.8, the response carries requiresConfirmation = true for the
\* product of the best score and the basket is not modified; when the
\* search returns no product, the response says so without
\* requiresConfirmation and the basket is not modified; the basket is
\* modified only by adding a product whose score is the best and at least
\* 0.8.
C23_ConfirmationForWeakBestMatch ==
  [][HandlesAdd =>
       LET good == \E p \in client.products : GoodMatch(ScoreOf(p))
           best(q) == /\ q \in client.products
                      /\ \A p \in client.products : ~LessThan(ScoreOf(q), ScoreOf(p))
       IN  /\ (client.products # {} /\ ~good) =>
                /\ client'.response.requiresConfirmation
                /\ best(client'.response.productId)
                /\ client'.saved = client.saved
           /\ client.products = {} =>
                /\ ~client'.response.requiresConfirmation
                /\ client'.response.text = "I couldn't find a product matching"
                /\ client'.saved = client.saved
           /\ client'.saved # client.saved =>
                \E q \in client.products :
                  /\ best(q) /\ GoodMatch(ScoreOf(q))
                  /\ client'.saved = client.saved \cup {q}
           /\ good => ~client'.response.requiresConfirmation]_vars

\* A confirmation is asked for after an earlier message has put a product
\* into the basket.
C23_Witness ==
  /\ client.pc = "saveBot"
  /\ client.response.requiresConfirmation
  /\ client.products # {}
  /\ client.saved # {}

\* C24: after a response that asked for confirmation, the next message is
\* taken as confirming or not confirming the pending action, and is not
\* classified as a fresh intent.
C24_NextMessageAnswersConfirmation ==
  client.lastResponse.requiresConfirmation =>
    client.pc \notin {"classify", "resolve", "resolved", "general"}

\* The whitespace-separated tokens of a string: its maximal runs of
\* characters other than the blank.
NameTokens(str) == SelectSeq(split(str), LAMBDA w : w # <<>>)

NameTokenSet(str) == {NameTokens(str)[i] : i \in 1..Len(NameTokens(str))}

\* The rule of the score: 1 for names equal ignoring case, else 0.9 when
\* the product name contains the requested term, else 0.8 when the term
\* contains the name, else the tokens common to both over the larger
\* token count.
RuleScore(search, actual) ==
  LET s == toLowerCase(search)
      a == toLowerCase(actual)
  IN  IF s = a THEN Fraction(1, 1)
      ELSE IF includes(a, s) THEN Fraction(9, 10)
      ELSE IF includes(s, a) THEN Fraction(8, 10)
      ELSE Fraction(Cardinality(NameTokenSet(s) \cap NameTokenSet(a)),
                    max(Len(NameTokens(s)), Len(NameTokens(a))))

\* Fractions of the same value.
SameValue(x, y) == x.num * y.den = y.num * x.den

\* C25: the match score follows the rule, in its order; the score of a
\* non-empty name against itself is 1 and every score lies in [0, 1].
C25_ScoreFollowsRule ==
  match.score # NoScore =>
    /\ SameValue(match.score, RuleScore(match.search, match.actual))
    /\ 0 <= match.score.num /\ match.score.num <= match.score.den
    /\ (match.search = match.actual /\ match.search # <<>>) =>
         SameValue(match.score, Fraction(1, 1))

\* C26: a failure to persist the user message or the assistant message does
\* not fail the turn: after the save of the user message, failed or not,
\* sendMessage goes on to the request, and after the save of the response,
\* failed or not, it returns the response it was given.
C26_SaveFailureDoesNotFailTurn ==
  [][/\ client.pc = "saveUser" =>
          client'.pc = "classify" /\ client'.response = client.response
     /\ client.pc = "saveBot" =>
          client'.pc = "idle" /\ client'.response = client.response]_vars

\* A turn in which both saves failed has returned the reply of the
\* chatbot.
C26_Witness ==
  /\ client.pc = "idle"
  /\ client.sent = 1
  /\ client.logged = 2
  /\ client.response.text = "reply"

\* A request is answered by one of the chat routes.
Answered(route) == api' # api /\ api'.route = route

\* C27: respond, clearHistory, saveMessage and getMessages answer a request
\* without a valid token with 401 and change nothing: no history is
\* appended to or cleared, no turn is started (the model is not called)
\* and no row is written.
C27_UnauthenticatedChangesNothing ==
  [][(api' # api /\ api'.token.kind # "valid") =>
       /\ api'.route \in {"respond", "clearHistory", "saveMessage", "getMessages"}
       /\ api'.status = "401"
       /\ conversationHistories' = conversationHistories
       /\ turns' = turns
       /\ api'.rows = api.rows]_vars

\* clearHistory was refused while a user has a history with a message of
\* a turn in it and a row in the chat table.
C27_Witness ==
  /\ api.route = "clearHistory"
  /\ api.status = "401"
  /\ api.token.kind = "invalid"
  /\ Len(conversationHistories[api.token.user]) > 2
  /\ api.rows # <<>>

\* C28: respond answers an authenticated request with an empty query with
\* 400 and starts no turn: the history is unchanged and the model is not
\* called.
C28_EmptyQueryRejected ==
  [][(Answered("respond") /\ api'.token.kind = "valid" /\ api'.query = "") =>
       /\ api'.status = "400"
       /\ conversationHistories' = conversationHistories
       /\ turns' = turns]_vars

\* The number a limit clause names.
LimitOf(n) == IF n = "5" THEN 5 ELSE IF n = "100" THEN 100 ELSE 1000

\* The statement has a limit clause.
SpecifiesLimit(stmt) ==
  \E i \in 1..(Len(stmt) - 1) : toUpperCase(stmt[i]) = "LIMIT"

\* C29: every statement the SQL tool executes is executed under a cap of
\* 100 rows: LIMIT 100 is added whenever the statement does not specify a
\* limit, and no executed statement can return more than 100 rows.
C29_RowCap ==
  sqlRequest.kind = "db" =>
    LET text == sqlRequest.text
        n == Len(text)
    IN  /\ ~SpecifiesLimit(sqlRequest.proposed) =>
             text = sqlRequest.proposed \o <<"LIMIT", "100">>
        /\ n >= 2
        /\ toUpperCase(text[n - 1]) = "LIMIT"
        /\ LimitOf(text[n]) <= 100

\* C30: remove_from_basket without a quantity removes the product from the
\* basket entirely.
C30_RemoveWithoutQuantityRemovesAll ==
  [][(/\ basket' # basket
      /\ basket'.call.tool = "remove_from_basket"
      /\ basket'.call.quantity = <<>>
      /\ basket'.call.error = "none") =>
       basket'.items[basket'.call.productId] = 0]_vars

\* C31: a tool invoked without one of the arguments its declaration
\* requires returns a result with an error and writes nothing.
C31_MissingArgumentFailsClean ==
  toolCall.missing # "none" => toolCall.error # "none" /\ ~toolCall.mutated

\* The discount the rule gives for a requested one.
ClampedDiscount(d) == IF d < 10 THEN 10 ELSE IF d > 20 THEN 20 ELSE d

\* C33: generate_coupon issues a coupon whose discount is the requested one
\* when that is between 10 and 20, 10 when it is lower and 20 when it is
\* higher.
C33_CouponDiscountClamped ==
  (/\ toolCall.functionName = "generate_coupon"
   /\ toolCall.missing = "none"
   /\ toolCall.error = "none") =>
    /\ toolCall.coupon = <<ClampedDiscount(toolCall.discount)>>
    /\ toolCall.coupon[1] >= 10 /\ toolCall.coupon[1] <= 20

\* A coupon was issued for a requested discount above the range.
C33_Witness ==
  /\ toolCall.functionName = "generate_coupon"
  /\ toolCall.discount > 20
  /\ toolCall.coupon = <<20>>

\* The rows of a user: ascending timestamps, rows of the same timestamp in
\* the order of their ids.
Ascending(rows) ==
  \A i \in 1..(Len(rows) - 1) : rows[i].timestamp <= rows[i + 1].timestamp

RowsOf(rows, u) == {rows[i] : i \in {j \in 1..Len(rows) : rows[j].UserId = u}}

FirstTurn(h, t) ==
  /\ Len(h) >= 2
  /\ h[Len(h)] = Message("user", t, "query")
  /\ \A i \in 1..(Len(h) - 1) : h[i].turn = 0

\* C34: on the first turn of a new conversation of a user with a username,
\* the placeholder of the system prompt is replaced by the username before
\* the first model request is sent.
C34_PromptCustomizedOnFirstTurn ==
  \A t \in TurnIds :
    (/\ turns[t].pc = "llm1"
     /\ FirstTurn(conversationHistories[turns[t].userId], t)) =>
      conversationHistories[turns[t].userId][1] = NamedSystemPrompt

\* The number of entries of a history that are the message m.
Count(h, m) == Cardinality({i \in 1..Len(h) : h[i] = m})

\* Whether the message m is an entry of the history h.
Occurs(h, m) == \E i \in 1..Len(h) : h[i] = m

\* The step of turn t in which processChat gets past the product lookup:
\* to the answer of the fast path, or to the first model request.
PassesLookup(t) ==
  /\ turns[t].pc \in {"idle", "product"}
  /\ turns'[t].pc \notin {"idle", "product"}

C36_UnconfiguredChangesNothing ==
  [][\A t \in TurnIds :
       (~LLM_API_KEY /\ turns[t].pc = "idle" /\ turns'[t].pc # "idle") =>
         /\ turns'[t] = [IdleTurn EXCEPT !.pc = "done", !.body = NotConfigured]
         /\ conversationHistories' = conversationHistories
         /\ api'.rows = api.rows
         /\ basket' = basket
         /\ sqlRequest' = sqlRequest]_vars

\* A row is stored when a call of processChat without a key has returned
\* and the route has sent its response.
C36_Witness ==
  /\ ~LLM_API_KEY
  /\ \E t \in TurnIds : turns[t].pc = "done" /\ turns[t].body = NotConfigured
  /\ api.rows # <<>>
  /\ api.route = "respond" /\ api.status = "200" /\ api.query # ""

\* The first model request of turn t has failed.
Failed(t) ==
  turns[t].pc = "done" /\ turns[t].body = "error communicating with the AI service"

\* The last entry of the history h is the message of a turn that failed.
Unanswered(h) ==
  /\ h # <<>>
  /\ h[Len(h)].role = "user"
  /\ Failed(h[Len(h)].turn)

\* C37: the failure of the first model request of a turn changes no
\* history, so the user's message stays where it is and no assistant reply
\* is put after it; and when the next turn of the user sends its model
\* request, the messages of the request end with the unanswered message
\* followed by the new one.
C37_UnansweredMessageKept ==
  [][\A t \in TurnIds :
       /\ (turns[t].pc = "llm1" /\ turns'[t].pc = "done"
             /\ turns'[t].body = "error communicating with the AI service") =>
            conversationHistories' = conversationHistories
       /\ (turns[t].pc \in {"idle", "product"} /\ turns'[t].pc = "llm1") =>
            LET h == conversationHistories[turns'[t].userId]
                messages == conversationHistories'[turns'[t].userId]
            IN  Unanswered(h) =>
                  /\ Len(messages) >= 2
                  /\ messages[Len(messages) - 1] = h[Len(h)]
                  /\ messages[Len(messages)] = Message("user", t, "query")]_vars

\* The turn after a failed one has sent its model request: the history
\* ends with the message of the failed turn and the new message.
C37_Witness ==
  \E u \in Users :
    \E t, next \in TurnIds :
      LET h == conversationHistories[u]
      IN  /\ Failed(t) /\ turns[next].pc = "llm1" /\ turns[next].userId = u
          /\ Len(h) >= 4
          /\ h[Len(h) - 1] = Message("user", t, "query")
          /\ h[Len(h)] = Message("user", next, "query")

\* The order in which a call of sendMessage posts its requests.
RequestOrder ==
  <<Request("messages", "user"), Request("respond", "none"),
    Request("messages", "assistant")>>

\* The assistant messages stored for the call n.
StoredReplies(c, n) ==
  {i \in 1..Len(c.stored) : c.stored[i] = [role |-> "assistant", call |-> n]}

\* C38: a call of sendMessage posts the user message, then the respond
\* request, then the assistant message, the last only when the respond
\* request was answered; when the respond request fails, nothing more is
\* posted or stored and the call returns a response flagged as an error.
C38_SendMessageOrdered ==
  [][/\ client'.requests = SubSeq(RequestOrder, 1, Len(client'.requests))
     /\ Len(client'.requests) = 3 => client'.replied
     /\ StoredReplies(client', client'.sent) # {} => client'.replied
     /\ (client.pc = "respond" /\ ~client'.replied /\ client'.pc # "respond") =>
          /\ client'.pc = "idle"
          /\ client'.response.error
          /\ client'.requests = client.requests
          /\ client'.stored = client.stored]_vars

\* A call whose respond request failed has returned after one whose request
\* was answered and whose assistant message is stored.
C38_Witness ==
  /\ client.pc = "idle" /\ client.sent = 2
  /\ ~client.replied /\ Len(client.requests) = 2 /\ client.response.error
  /\ StoredReplies(client, 1) # {}
  /\ StoredReplies(client, 2) = {}

\* The sum of f over the calls 1..n.
RECURSIVE SumOver(_, _)
SumOver(f, n) == IF n = 0 THEN 0 ELSE f[n] + SumOver(f, n - 1)

\* The quantities the successful calls have added to the product.
Added(productId) ==
  SumOver([c \in Calls |->
             IF basket.calls[c].pc = "done" /\ basket.calls[c].productId = productId
             THEN basket.calls[c].quantity ELSE 0], NumCalls)

\* The rows of the product.
ItemsOf(productId) ==
  SelectSeq(basket.rows, LAMBDA r : r.ProductId = productId)

\* C39: when no call of add_to_basket is under way, the basket holds for
\* every product that was held or added one item, whose quantity is the
\* quantity held before plus the quantities the successful calls added.
C39_AddsAccumulate ==
  (\A c \in Calls : basket.calls[c].pc # "found") =>
    \A productId \in 1..NumProducts :
      LET items == ItemsOf(productId)
          total == basket.earlier[productId] + Added(productId)
      IN  IF total = 0 THEN items = <<>>
          ELSE items = <<BasketItem(productId, total)>>
====
